---- MODULE Spec2Model ----
(***************************************************************************)
(* A model of the fanotify backend of opcoder0/fsnotify.                   *)
(*                                                                         *)
(* The watcher that is modelled is the Watcher of the fanotify helper file *)
(* (src/unnamed/part_000): its constructor, the background poll loop       *)
(* start, the decoder readFanotifyEvents with the three publishers, the    *)
(* closer closeFanotify and the mark operations.  The kernel is the        *)
(* environment: it queues event records on the notification group, and     *)
(* answers poll, read, readlink, open_by_handle_at and fanotify_mark.      *)
(*                                                                         *)
(* The read buffer is modelled byte by byte with the kernel's record       *)
(* layout, so that the decoder's offsets are computed, not assumed.        *)
(* Bit masks are modelled as sets of bit positions: n&k == k is            *)
(* k \subseteq n, n|k is n \cup k, and n^k is the symmetric difference.    *)
(***************************************************************************)
EXTENDS Integers, Sequences, FiniteSets, TLC

(***************************************************************************)
(* Bounds of the model.                                                    *)
(***************************************************************************)
\* number of event records the kernel produces in one run
MaxRecords == 2
\* number of injected syscall failures (EINTR, EIO, ESTALE, ...) in one run
MaxFaults == 1
\* number of tasks, besides the background task, that call Close
NumClosers == 1
\* number of Add / Remove / Clear calls in one run
MaxCalls == 3

(***************************************************************************)
(* Program constants.                                                      *)
(***************************************************************************)
sizeOfFanotifyEventMetadata == 24
sizeOfFanotifyEventInfoHeader == 4
sizeOfKernelFSIDType == 8
sizeOfUint32 == 4
FANOTIFY_METADATA_VERSION == 3
FAN_NOFD == -1
FAN_EVENT_INFO_TYPE_FID == 1
FAN_EVENT_INFO_TYPE_DFID_NAME == 2
FAN_EVENT_INFO_TYPE_DFID == 3
NAME_MAX == 255
\* response.Response of Allow and of Deny
FAN_ALLOW == 1
FAN_DENY == 2
\* var buf [4096 * sizeOfFanotifyEventMetadata]byte
BufRecords == 4096
BufCap == BufRecords * sizeOfFanotifyEventMetadata

\* event mask bits (golang.org/x/sys/unix), as sets of bit positions
FAN_ACCESS == {0}
FAN_MODIFY == {1}
FAN_ATTRIB == {2}
FAN_CLOSE_WRITE == {3}
FAN_CLOSE_NOWRITE == {4}
FAN_OPEN == {5}
FAN_MOVED_FROM == {6}
FAN_MOVED_TO == {7}
FAN_CREATE == {8}
FAN_DELETE == {9}
FAN_DELETE_SELF == {10}
FAN_MOVE_SELF == {11}
FAN_OPEN_EXEC == {12}
FAN_Q_OVERFLOW == {14}
FAN_OPEN_PERM == {16}
FAN_ACCESS_PERM == {17}
FAN_OPEN_EXEC_PERM == {18}
FAN_EVENT_ON_CHILD == {27}
FAN_ONDIR == {30}
FAN_MOVE == FAN_MOVED_FROM \cup FAN_MOVED_TO

\* fanotify_init flags, as sets of bit positions
FAN_CLOEXEC == {0}
FAN_CLASS_NOTIF == {}
FAN_CLASS_CONTENT == {2}
FAN_CLASS_PRE_CONTENT == {3}
FAN_ENABLE_AUDIT == {6}
FAN_REPORT_FID == {9}
FAN_REPORT_DIR_FID == {10}
FAN_REPORT_NAME == {11}
FAN_REPORT_DFID_NAME == FAN_REPORT_DIR_FID \cup FAN_REPORT_NAME

\* fanotify_mark flags
FAN_MARK_ADD == {0}
FAN_MARK_REMOVE == {1}
FAN_MARK_MOUNT == {4}
FAN_MARK_FLUSH == {7}

(***************************************************************************)
(* Bytes.  A buffer is a sequence of bytes; offsets are 0-based as in the  *)
(* source.  A Go array is zero-initialised: the bytes beyond what has been *)
(* written are 0.                                                          *)
(***************************************************************************)
\* a u32 whose top bit is set is only ever compared with small lengths;
\* it is represented by the largest integer of the model's arithmetic
U32Big == 2147483647

ByteAt(b, j) == IF j >= 0 /\ j < Len(b) THEN b[j + 1] ELSE 0

\* binary.Read(..., binary.LittleEndian, &uint16 / &uint32 / &int32) and the
\* struct overlay of the same fields
U16At(b, j) == ByteAt(b, j) + 256 * ByteAt(b, j + 1)

U32At(b, j) ==
    IF ByteAt(b, j + 3) >= 128 THEN U32Big
    ELSE ByteAt(b, j) + 256 * ByteAt(b, j + 1) + 65536 * ByteAt(b, j + 2)
         + 16777216 * ByteAt(b, j + 3)

I32At(b, j) ==
    ByteAt(b, j) + 256 * ByteAt(b, j + 1) + 65536 * ByteAt(b, j + 2)
    + 16777216 * (IF ByteAt(b, j + 3) >= 128 THEN ByteAt(b, j + 3) - 256
                  ELSE ByteAt(b, j + 3))

U64BitsAt(b, j) ==
    {k \in 0..63 : (ByteAt(b, j + (k \div 8)) \div (2 ^ (k % 8))) % 2 = 1}

\* the kernel's side: little-endian encodings
LE16(v) == <<v % 256, (v \div 256) % 256>>

LE32(v) ==
    LET u == IF v < 0 THEN v + 2147483647 + 1 ELSE v
        top == (u \div 16777216) % 256
    IN  <<u % 256, (u \div 256) % 256, (u \div 65536) % 256,
          IF v < 0 THEN top + 128 ELSE top>>

BitsByte(m, k) ==
    LET bit(t) == IF (8 * k + t) \in m THEN 2 ^ t ELSE 0
    IN  bit(0) + bit(1) + bit(2) + bit(3) + bit(4) + bit(5) + bit(6) + bit(7)

LE64Bits(m) == [k \in 1..8 |-> BitsByte(m, k - 1)]

Zeros(k) == [x \in 1..k |-> 0]

(***************************************************************************)
(* Pure functions of the source.                                           *)
(***************************************************************************)
isSet(n, k) == k \subseteq n

\* fanotifyEventType.Has
Has(e, et) == et \subseteq e

Xor(a, b) == (a \ b) \cup (b \ a)

PermissionOps == {"PermissionToOpen", "PermissionToExecute", "PermissionToRead"}

\* a mapping that leaves FAN_MOVED_TO out of Create
toOpNoMovedTo(e) ==
    (IF Has(e, FAN_CREATE) THEN {"Create"} ELSE {})
    \cup (IF Has(e, FAN_DELETE) \/ Has(e, FAN_DELETE_SELF) THEN {"Remove"} ELSE {})
    \cup (IF Has(e, FAN_MODIFY) \/ Has(e, FAN_CLOSE_WRITE) THEN {"Write"} ELSE {})
    \cup (IF Has(e, FAN_MOVE_SELF) \/ Has(e, FAN_MOVED_FROM) THEN {"Rename"} ELSE {})
    \cup (IF Has(e, FAN_ATTRIB) THEN {"Chmod"} ELSE {})
    \cup (IF Has(e, FAN_ACCESS) THEN {"Read"} ELSE {})
    \cup (IF Has(e, FAN_CLOSE_NOWRITE) THEN {"Close"} ELSE {})
    \cup (IF Has(e, FAN_OPEN) THEN {"Open"} ELSE {})
    \cup (IF Has(e, FAN_OPEN_EXEC) THEN {"Execute"} ELSE {})
    \cup (IF Has(e, FAN_OPEN_PERM) THEN {"PermissionToOpen"} ELSE {})
    \cup (IF Has(e, FAN_OPEN_EXEC_PERM) THEN {"PermissionToExecute"} ELSE {})
    \cup (IF Has(e, FAN_ACCESS_PERM) THEN {"PermissionToRead"} ELSE {})

\* fanotifyEventType.toOp
toOp(e) ==
    (IF Has(e, FAN_CREATE) \/ Has(e, FAN_MOVED_TO) THEN {"Create"} ELSE {})
    \cup (IF Has(e, FAN_DELETE) \/ Has(e, FAN_DELETE_SELF) THEN {"Remove"} ELSE {})
    \cup (IF Has(e, FAN_MODIFY) \/ Has(e, FAN_CLOSE_WRITE) THEN {"Write"} ELSE {})
    \cup (IF Has(e, FAN_MOVE_SELF) \/ Has(e, FAN_MOVED_FROM) THEN {"Rename"} ELSE {})
    \cup (IF Has(e, FAN_ATTRIB) THEN {"Chmod"} ELSE {})
    \cup (IF Has(e, FAN_ACCESS) THEN {"Read"} ELSE {})
    \cup (IF Has(e, FAN_CLOSE_NOWRITE) THEN {"Close"} ELSE {})
    \cup (IF Has(e, FAN_OPEN) THEN {"Open"} ELSE {})
    \cup (IF Has(e, FAN_OPEN_EXEC) THEN {"Execute"} ELSE {})
    \cup (IF Has(e, FAN_OPEN_PERM) THEN {"PermissionToOpen"} ELSE {})
    \cup (IF Has(e, FAN_OPEN_EXEC_PERM) THEN {"PermissionToExecute"} ELSE {})
    \cup (IF Has(e, FAN_ACCESS_PERM) THEN {"PermissionToRead"} ELSE {})

\* mask := metadata.Mask; if mask&FAN_ONDIR == FAN_ONDIR { mask = mask ^ FAN_ONDIR }
ClearOnDir(mask) == IF isSet(mask, FAN_ONDIR) THEN Xor(mask, FAN_ONDIR) ELSE mask

\* the routing test of the classic case
IsPermMask(mask) ==
    \/ isSet(mask, FAN_ACCESS_PERM)
    \/ isSet(mask, FAN_OPEN_PERM)
    \/ isSet(mask, FAN_OPEN_EXEC_PERM)

\* a switch that has no case for a major version above 5
InitFlagsNoMajorAbove(maj, min) ==
    IF maj < 5 THEN FAN_CLASS_NOTIF \cup FAN_CLOEXEC
    ELSE IF maj = 5 THEN
        IF min < 1 THEN FAN_CLASS_NOTIF \cup FAN_CLOEXEC
        ELSE IF min < 9 THEN FAN_CLASS_NOTIF \cup FAN_CLOEXEC \cup FAN_REPORT_FID
        ELSE FAN_CLASS_NOTIF \cup FAN_CLOEXEC \cup FAN_REPORT_DIR_FID \cup FAN_REPORT_NAME
    ELSE {}

\* eventFlags = unix.O_RDONLY | unix.O_LARGEFILE | unix.O_CLOEXEC
EventFlags == {"O_RDONLY", "O_LARGEFILE", "O_CLOEXEC"}

\* the switch on the kernel version in newFanotifyWatcher
InitFlags(maj, min) ==
    IF maj < 5 THEN FAN_CLASS_NOTIF \cup FAN_CLOEXEC
    ELSE IF maj = 5 THEN
        IF min < 1 THEN FAN_CLASS_NOTIF \cup FAN_CLOEXEC
        ELSE IF min < 9 THEN FAN_CLASS_NOTIF \cup FAN_CLOEXEC \cup FAN_REPORT_FID
        ELSE FAN_CLASS_NOTIF \cup FAN_CLOEXEC \cup FAN_REPORT_DIR_FID \cup FAN_REPORT_NAME
    ELSE FAN_CLASS_NOTIF \cup FAN_CLOEXEC \cup FAN_REPORT_DIR_FID \cup FAN_REPORT_NAME

\* flagsValid: TRUE when the function returns nil
flagsValid(flags) ==
    /\ ~isSet(flags, FAN_REPORT_FID \cup FAN_CLASS_CONTENT)
    /\ ~isSet(flags, FAN_REPORT_FID \cup FAN_CLASS_PRE_CONTENT)
    /\ (isSet(flags, FAN_REPORT_NAME) => isSet(flags, FAN_REPORT_DIR_FID))

\* isFanotifyMarkMaskValid: TRUE when the function returns nil
isFanotifyMarkMaskValid(flags, mask) ==
    ~(/\ isSet(flags, FAN_MARK_MOUNT)
      /\ \/ isSet(mask, FAN_CREATE)
         \/ isSet(mask, FAN_ATTRIB)
         \/ isSet(mask, FAN_MOVE)
         \/ isSet(mask, FAN_DELETE_SELF)
         \/ isSet(mask, FAN_DELETE))

\* check(n, k, w, x) of the two kernel-support functions, for a flag that is set
VersionAtLeast(maj, min, w, x) == maj > w \/ (maj = w /\ min >= x)

flagPerKernelVersion ==
    { <<FAN_ENABLE_AUDIT, 4, 15>>, <<FAN_REPORT_FID, 5, 1>>,
      <<FAN_REPORT_DIR_FID, 5, 9>>, <<FAN_REPORT_NAME, 5, 9>>,
      <<FAN_REPORT_DFID_NAME, 5, 9>> }

fanotifyMarkFlags ==
    { <<FAN_OPEN_EXEC, 5, 0>>, <<FAN_ATTRIB, 5, 1>>, <<FAN_CREATE, 5, 1>>,
      <<FAN_DELETE, 5, 1>>, <<FAN_DELETE_SELF, 5, 1>>, <<FAN_MOVED_FROM, 5, 1>>,
      <<FAN_MOVED_TO, 5, 1>> }

\* Both functions range over a Go map, whose iteration order is not fixed, and
\* return the verdict of the first flag found set: the result is any member of
\* the set below.
KernelSupportVerdicts(table, flags, maj, min) ==
    LET found == {e \in table : isSet(flags, e[1])}
    IN  IF found = {} THEN {TRUE}
        ELSE {VersionAtLeast(maj, min, e[2], e[3]) : e \in found}

fanotifyInitFlagsKernelSupport(flags, maj, min) ==
    KernelSupportVerdicts(flagPerKernelVersion, flags, maj, min)

fanotifyMarkFlagsKernelSupport(flags, maj, min) ==
    KernelSupportVerdicts(fanotifyMarkFlags, flags, maj, min)

\* fanotifyEventOK, on the metadata overlaid at offset i of the buffer
fanotifyEventOK(b, i, n) ==
    /\ n >= sizeOfFanotifyEventMetadata
    /\ U32At(b, i) >= sizeOfFanotifyEventMetadata
    /\ U32At(b, i) <= n

(***************************************************************************)
(* The fields of the metadata and of the info record overlaid at an offset *)
(* (unix.FanotifyEventMetadata, fanotifyEventInfoFID).                     *)
(***************************************************************************)
MetaEventLen(b, i) == U32At(b, i)
MetaVers(b, i) == ByteAt(b, i + 4)
MetaMetadataLen(b, i) == U16At(b, i + 6)
MetaMask(b, i) == U64BitsAt(b, i + 8)
MetaFd(b, i) == I32At(b, i + 16)
MetaPid(b, i) == I32At(b, i + 20)
InfoType(b, i) == ByteAt(b, i + MetaMetadataLen(b, i))

SubBytes(b, from, len) == [x \in 1..len |-> ByteAt(b, from + x - 1)]

\* offset of handle_bytes: j := i + metadataLen + header + fsid
HandleOffset(b, i) ==
    i + MetaMetadataLen(b, i) + sizeOfFanotifyEventInfoHeader + sizeOfKernelFSIDType

\* a slice expression beyond the array's capacity panics
HandleInBounds(b, i) ==
    LET j == HandleOffset(b, i)
    IN  /\ j + 2 * sizeOfUint32 <= BufCap
        /\ U32At(b, j) <= BufCap - (j + 2 * sizeOfUint32)

\* getFileHandle: the handle (type, bytes) read at the info record
getFileHandle(b, i) ==
    LET j == HandleOffset(b, i)
        fhSize == U32At(b, j)
    IN  [type |-> I32At(b, j + sizeOfUint32),
         bytes |-> SubBytes(b, j + 2 * sizeOfUint32, fhSize)]

\* getFileHandleWithName: the bytes after the handle up to the first NUL, at
\* most NAME_MAX of them
NameOffset(b, i) == HandleOffset(b, i) + 2 * sizeOfUint32 + U32At(b, HandleOffset(b, i))

NameLength(b, j) ==
    LET stops == {k \in 0..(NAME_MAX - 1) : ByteAt(b, j + k) = 0}
    IN  IF stops = {} THEN NAME_MAX
        ELSE CHOOSE k \in stops : \A k2 \in stops : k <= k2

getFileHandleWithName(b, i) ==
    [handle |-> getFileHandle(b, i),
     fname |-> SubBytes(b, NameOffset(b, i), NameLength(b, NameOffset(b, i)))]

\* path.Join(pathName, fileName), on byte strings; 47 is '/'
Join(pathName, fileName) ==
    IF fileName = <<>> THEN pathName ELSE pathName \o <<47>> \o fileName

(***************************************************************************)
(* The kernel's records.  A record the kernel queues is                    *)
(*   [kind, mask, pid, name]                                               *)
(* kind "fd"    : classic record, the kernel supplies an open fd           *)
(* kind "fid"   : fd = FAN_NOFD, one info record of type FID               *)
(* kind "dfid"  : fd = FAN_NOFD, one info record of type DFID              *)
(* kind "name"  : fd = FAN_NOFD, one info record of type DFID_NAME, with   *)
(*                the NUL-terminated name after the file handle            *)
(* kind "overflow": the queue overflowed; fd = FAN_NOFD, mask              *)
(*                FAN_Q_OVERFLOW, no info record                           *)
(* pid numbers the records in the order the kernel produced them.          *)
(***************************************************************************)
Fsid == <<1, 0, 0, 0, 2, 0, 0, 0>>
\* the file handle of the watched directory: handle_type 1, 8 bytes
DirHandle == [type |-> 1, bytes |-> <<7, 0, 0, 0, 0, 0, 0, 0>>]
\* "/d", the path of the watched directory, and "a", the name of a child
DirPath == <<47, 100>>
ChildName == <<97>>

\* struct fanotify_event_info_fid, the handle and the optional name, padded to
\* a multiple of 4 as the kernel does
InfoFid(type, tail) ==
    LET body == Fsid \o LE32(Len(DirHandle.bytes)) \o LE32(DirHandle.type)
                \o DirHandle.bytes \o tail
        raw == sizeOfFanotifyEventInfoHeader + Len(body)
        pad == (4 - (raw % 4)) % 4
    IN  <<type, 0>> \o LE16(raw + pad) \o body \o Zeros(pad)

InfoOf(r) ==
    CASE r.kind = "fd" -> <<>>
      [] r.kind = "overflow" -> <<>>
      [] r.kind = "fid" -> InfoFid(FAN_EVENT_INFO_TYPE_FID, <<>>)
      [] r.kind = "dfid" -> InfoFid(FAN_EVENT_INFO_TYPE_DFID, <<>>)
      [] OTHER -> InfoFid(FAN_EVENT_INFO_TYPE_DFID_NAME, r.name \o <<0>>)

\* struct fanotify_event_metadata followed by the info record
Encode(r, fd) ==
    LET info == InfoOf(r)
    IN  LE32(sizeOfFanotifyEventMetadata + Len(info))
        \o <<FANOTIFY_METADATA_VERSION, 0>>
        \o LE16(sizeOfFanotifyEventMetadata)
        \o LE64Bits(r.mask) \o LE32(fd) \o LE32(r.pid) \o info

RECURSIVE EncodeQueue(_, _)
\* what one read returns for the queued records q; fd0 is the next free
\* descriptor number, given to the classic records in order
EncodeQueue(q, fd0) ==
    IF q = <<>> THEN <<>>
    ELSE IF Head(q).kind = "fd"
         THEN Encode(Head(q), fd0) \o EncodeQueue(Tail(q), fd0 + 1)
         ELSE Encode(Head(q), FAN_NOFD) \o EncodeQueue(Tail(q), fd0)

ClassicCount(q) == Cardinality({k \in 1..Len(q) : q[k].kind = "fd"})

\* unix.Read(w.fd, buf[:]) writes the bytes at the start of the array and
\* leaves the rest of the array as it was
Overwrite(b, data) ==
    IF Len(b) <= Len(data) THEN data
    ELSE data \o SubSeq(b, Len(data) + 1, Len(b))

\* The records of the model, for a group of the given init flags.  The
\* decoder takes whatever the read returns, so each mode has a record with a
\* plain mask and, where the decoder is asked about every mask, one with a
\* permission bit; a group that reports names gets records with and without
\* a name.
RecordChoices(flags) ==
    IF isSet(flags, FAN_REPORT_DIR_FID)
    THEN {<<"name", FAN_CREATE \cup FAN_ONDIR>>, <<"dfid", FAN_DELETE_SELF \cup FAN_ONDIR>>}
    ELSE IF isSet(flags, FAN_REPORT_FID)
    THEN {<<"fid", FAN_CREATE \cup FAN_ONDIR>>, <<"fid", FAN_OPEN_PERM>>}
    ELSE {<<"fd", FAN_MODIFY>>, <<"fd", FAN_OPEN_PERM>>}

\* open_by_handle_at resolves exactly the handles the kernel gave out
HandleResolves(h) == h = DirHandle

(***************************************************************************)
(* State.                                                                  *)
(***************************************************************************)
VARIABLES
    w,           \* the Watcher's fields and the descriptors it owns
    bg,          \* the background task: start and readFanotifyEvents
    cl,          \* the tasks in closeFanotify; 0 is the background task's defer
    kq,          \* the records queued on the notification group
    nprod,       \* number of records the kernel has produced
    faults,      \* number of syscall failures injected
    openFds,     \* the event descriptors open in the process
    pipeData,    \* number of writes to the stopper pipe not read yet
    recvEvents,  \* what a consumer has received on Events
    recvPerm,    \* what a consumer has received on PermissionEvents
    recvErrors,  \* what a consumer has received on Errors
    readLog,     \* the records read from the notification fd, in order
    closeCount,  \* how many times each resource has been closed
    panicked,    \* "" or the reason the process has aborted
    atClose,     \* -1, or the number of events received when close(w.done) ran
    fstab,       \* the records of /etc/fstab
    marks,       \* the kernel's marks of the group: path -> mask
    ncalls,      \* number of Add / Remove / Clear calls made
    lastCall,    \* the last such call and what it returned
    perm,        \* the accesses that wait for a permission decision
    eval         \* the last call of a function on its own, and its result

vars == <<w, bg, cl, kq, nprod, faults, openFds, pipeData, recvEvents, recvPerm,
          recvErrors, readLog, closeCount, panicked, atClose, fstab, marks,
          ncalls, lastCall, perm, eval>>

\* the variables of the mark operations, of the permission decisions and of
\* the calls of single functions: the tasks of the watcher write none of them
markVars == <<fstab, marks, ncalls, lastCall, perm, eval>>

Resources == {"done", "fd", "mountPointFile", "stopper.r", "stopper.w",
              "Events", "PermissionEvents", "Errors"}

\* the kernel versions of the model: 5.0 has no FID reporting, 5.4 reports
\* FID, 5.10 reports DFID_NAME
KernelVersions == {<<5, 0>>, <<5, 4>>, <<5, 10>>}

\* newFanotifyWatcher: the Watcher it returns, for the kernel version found
newFanotifyWatcher(maj, min) ==
    [fdOpen |-> TRUE,
     flags |-> InitFlags(maj, min),
     kernelMajorVersion |-> maj,
     kernelMinorVersion |-> min,
     doneClosed |-> FALSE,
     rOpen |-> TRUE,
     wOpen |-> TRUE,
     EventsClosed |-> FALSE,
     PermissionEventsClosed |-> FALSE,
     ErrorsClosed |-> FALSE,
     isClosed |-> FALSE,
     closeOnce |-> "new",
     mountPointFile |-> "nil",
     mountDeviceID |-> 0,
     findMountPoint |-> "new"]

NoSend == [ch |-> "none"]

Running == panicked = ""

(***************************************************************************)
(* The kernel: an event on a marked object queues a record.  The group     *)
(* lives while the notification fd is open or a poll or read on it is in   *)
(* progress.  The program sees the queue only when a poll or a read        *)
(* returns, so a record that arrives at another moment is modelled as      *)
(* arriving when the background task next waits in poll or read.           *)
(***************************************************************************)
GroupAlive ==
    \/ bg.pc = "poll_wait" /\ bg.pv0
    \/ bg.pc = "read_wait" /\ bg.rv

KernelEvent ==
    /\ Running
    /\ GroupAlive
    /\ nprod < MaxRecords
    /\ \E r \in RecordChoices(w.flags) :
         kq' = Append(kq, [kind |-> r[1], mask |-> r[2], pid |-> nprod + 1,
                           name |-> IF r[1] = "name" THEN ChildName ELSE <<>>])
    /\ nprod' = nprod + 1
    /\ UNCHANGED <<w, bg, cl, faults, openFds, pipeData, recvEvents, recvPerm,
                   recvErrors, readLog, closeCount, panicked, atClose, markVars>>

(***************************************************************************)
(* The background task.  bg.pc is its position:                            *)
(*   poll_enter, poll_wait   start: unix.Poll(fds[:], -1)                  *)
(*   read_enter, read_wait   readFanotifyEvents: unix.Read(w.fd, buf[:])   *)
(*   decode                  readFanotifyEvents: the test of the inner for *)
(*   send_check, send_select a publisher: the isClosed test, the select    *)
(*   defer                   start has returned; closeFanotify runs        *)
(*   exited                  the task has ended                            *)
(* bg.nread keeps the count the last read returned (the code counts n      *)
(* down in place).                                                         *)
(* A blocking syscall takes its descriptors when it is entered: closing    *)
(* the descriptor in another task does not wake it, and a call entered     *)
(* after the close finds the number invalid (POLLNVAL, EBADF).  Descriptor *)
(* numbers are not handed out again in the model.                          *)
(***************************************************************************)
\* the locals of readFanotifyEvents, as they are when it is entered
FreshLocals(b) ==
    [b EXCEPT !.buf = <<>>, !.n = 0, !.i = 0, !.evlen = 0, !.fileName = <<>>,
              !.snd = NoSend, !.cont = "none", !.rv = FALSE, !.nread = 0]

BgUnchanged ==
    UNCHANGED <<cl, nprod, faults, pipeData, recvEvents, recvPerm, recvErrors,
                closeCount, atClose, w, markVars>>

PollEnter ==
    /\ Running
    /\ bg.pc = "poll_enter"
    /\ bg' = [bg EXCEPT !.pc = "poll_wait", !.pv0 = w.fdOpen, !.pv1 = w.rOpen]
    /\ UNCHANGED <<kq, openFds, readLog, panicked>>
    /\ BgUnchanged

\* fds[1].Revents&POLLIN == POLLIN: the stopper has data
StopperReadable == bg.pv1 /\ pipeData > 0
\* fds[0].Revents&POLLIN == POLLIN: the group has records
NotifyReadable == bg.pv0 /\ kq # <<>>

\* what start does with the revents of a poll that returned n > 0
startDispatch(b, stop, notify) ==
    IF stop THEN [b EXCEPT !.pc = "defer", !.pv0 = FALSE, !.pv1 = FALSE]
    ELSE IF notify
    THEN [FreshLocals(b) EXCEPT !.pc = "read_enter", !.pv0 = FALSE, !.pv1 = FALSE]
    ELSE [b EXCEPT !.pc = "poll_enter", !.pv0 = FALSE, !.pv1 = FALSE]

\* poll returns n > 0: a descriptor is readable, or its number is invalid
PollReturn ==
    /\ Running
    /\ bg.pc = "poll_wait"
    /\ StopperReadable \/ NotifyReadable \/ ~bg.pv0 \/ ~bg.pv1
    /\ bg' = startDispatch(bg, StopperReadable, NotifyReadable)
    /\ UNCHANGED <<kq, openFds, readLog, panicked>>
    /\ BgUnchanged

\* poll returns EINTR: continue
PollInterrupted ==
    /\ Running
    /\ bg.pc = "poll_wait"
    /\ faults < MaxFaults
    /\ faults' = faults + 1
    /\ bg' = [bg EXCEPT !.pc = "poll_enter", !.pv0 = FALSE, !.pv1 = FALSE]
    /\ UNCHANGED <<w, cl, kq, nprod, openFds, pipeData, recvEvents, recvPerm,
                   recvErrors, readLog, closeCount, panicked, atClose, markVars>>

\* poll fails with another errno: sendError(err)
PollError ==
    /\ Running
    /\ bg.pc = "poll_wait"
    /\ faults < MaxFaults
    /\ faults' = faults + 1
    /\ bg' = [bg EXCEPT !.pc = "send_check", !.cont = "poll", !.pv0 = FALSE,
                        !.pv1 = FALSE, !.snd = [ch |-> "Errors", val |-> "poll"]]
    /\ UNCHANGED <<w, cl, kq, nprod, openFds, pipeData, recvEvents, recvPerm,
                   recvErrors, readLog, closeCount, panicked, atClose, markVars>>

ReadEnter ==
    /\ Running
    /\ bg.pc = "read_enter"
    /\ bg' = [bg EXCEPT !.pc = "read_wait", !.rv = w.fdOpen]
    /\ UNCHANGED <<kq, openFds, readLog, panicked>>
    /\ BgUnchanged

NextFd == 10 + Cardinality(openFds)

\* read returns every queued record; the kernel opens a descriptor for each
\* classic record
ReadReturn ==
    /\ Running
    /\ bg.pc = "read_wait"
    /\ bg.rv
    /\ kq # <<>>
    /\ LET data == EncodeQueue(kq, NextFd)
       IN  bg' = [bg EXCEPT !.pc = "decode", !.buf = Overwrite(bg.buf, data),
                            !.n = Len(data), !.i = 0, !.rv = FALSE,
                            !.nread = Len(data)]
    /\ openFds' = openFds \cup {NextFd + k : k \in 0..(ClassicCount(kq) - 1)}
    /\ readLog' = readLog \o kq
    /\ kq' = <<>>
    /\ UNCHANGED panicked
    /\ BgUnchanged

\* read returns EINTR: continue
ReadInterrupted ==
    /\ Running
    /\ bg.pc = "read_wait"
    /\ bg.rv
    /\ faults < MaxFaults
    /\ faults' = faults + 1
    /\ bg' = [bg EXCEPT !.pc = "read_enter", !.rv = FALSE]
    /\ UNCHANGED <<w, cl, kq, nprod, openFds, pipeData, recvEvents, recvPerm,
                   recvErrors, readLog, closeCount, panicked, atClose, markVars>>

\* read fails with EBADF, the descriptor having been closed before the call:
\* sendError(err), then n = -1 ends the function
ReadBadFd ==
    /\ Running
    /\ bg.pc = "read_wait"
    /\ ~bg.rv
    /\ bg' = [bg EXCEPT !.pc = "send_check", !.cont = "read", !.rv = FALSE,
                        !.snd = [ch |-> "Errors", val |-> "read"]]
    /\ UNCHANGED <<kq, openFds, readLog, panicked, faults>>
    /\ UNCHANGED <<cl, nprod, pipeData, recvEvents, recvPerm, recvErrors,
                   closeCount, atClose, w, markVars>>

\* read fails with another errno: the same path
ReadError ==
    /\ Running
    /\ bg.pc = "read_wait"
    /\ bg.rv
    /\ faults < MaxFaults
    /\ faults' = faults + 1
    /\ bg' = [bg EXCEPT !.pc = "send_check", !.cont = "read", !.rv = FALSE,
                        !.snd = [ch |-> "Errors", val |-> "read"]]
    /\ UNCHANGED <<w, cl, kq, nprod, openFds, pipeData, recvEvents, recvPerm,
                   recvErrors, readLog, closeCount, panicked, atClose, markVars>>

(***************************************************************************)
(* readFanotifyEvents: one pass of the inner loop, from the test           *)
(* fanotifyEventOK(metadata, n) to the publisher it calls or to the        *)
(* continue that skips the record.  f names the syscall that is made to    *)
(* fail in this pass ("none", "readlink", "open_by_handle_at").            *)
(***************************************************************************)
KnownInfoTypes ==
    {FAN_EVENT_INFO_TYPE_FID, FAN_EVENT_INFO_TYPE_DFID, FAN_EVENT_INFO_TYPE_DFID_NAME}

\* i += int(metadata.Event_len); n -= int(metadata.Event_len)
Advance(b, evlen) == [b EXCEPT !.i = @ + evlen, !.n = @ - evlen]

\* i += len(fileName) // advance some to cover the filename
AdvanceName(i, fileName) == i + Len(fileName)

\* the event of the classic case
ClassicEvent(b, i) ==
    [Name |-> Join(DirPath, ChildName),
     Op |-> toOp(ClearOnDir(MetaMask(b, i))),
     Fd |-> MetaFd(b, i),
     Pid |-> MetaPid(b, i)]

\* a classic case that publishes every event on Events
ClassicStreamEvents(b, i) == "Events"

\* the stream the classic case publishes on
ClassicStream(b, i) ==
    IF IsPermMask(ClearOnDir(MetaMask(b, i))) THEN "PermissionEvents" ELSE "Events"

\* a FID case that reports the descriptor field of the record
FidEventMetaFd(b, i, fileName, fd) ==
    [Name |-> Join(DirPath, fileName),
     Op |-> toOp(ClearOnDir(MetaMask(b, i))),
     Fd |-> MetaFd(b, i),
     Pid |-> MetaPid(b, i)]

\* the event of the FID case
FidEvent(b, i, fileName, fd) ==
    [Name |-> Join(DirPath, fileName),
     Op |-> toOp(ClearOnDir(MetaMask(b, i))),
     Fd |-> fd,
     Pid |-> MetaPid(b, i)]

\* the stream the FID case publishes on
FidStream(b, i) == "Events"

\* the scan for the NUL of the name stays inside the array
NameInBounds(b, i) ==
    NameOffset(b, i) + NameLength(b, NameOffset(b, i)) < BufCap

DecodeStep(f) ==
    LET b == bg.buf
        i == bg.i
        ok == fanotifyEventOK(b, i, bg.n)
        evlen == MetaEventLen(b, i)
        versOK == MetaVers(b, i) = FANOTIFY_METADATA_VERSION
        classic == MetaFd(b, i) # FAN_NOFD
        known == InfoType(b, i) \in KnownInfoTypes
        withName == InfoType(b, i) = FAN_EVENT_INFO_TYPE_DFID_NAME
        inb == HandleInBounds(b, i) /\ (withName => NameInBounds(b, i))
        fileName == IF withName THEN getFileHandleWithName(b, i).fname
                    ELSE bg.fileName
        handle == getFileHandle(b, i)
        i2 == IF withName THEN AdvanceName(i, fileName) ELSE i
        resolves == w.mountPointFile = "open" /\ HandleResolves(handle)
        linkOK == MetaFd(b, i) \in openFds
        reached ==
            /\ i < BufCap /\ ok /\ versOK
            /\ \/ f = "readlink" /\ classic /\ linkOK
               \/ ~classic /\ known /\ inb /\ resolves
        publish(ch, val, ii, fn) ==
            bg' = [bg EXCEPT !.pc = "send_check", !.cont = "rec", !.evlen = evlen,
                             !.i = ii, !.fileName = fn,
                             !.snd = [ch |-> ch, val |-> val]]
    IN
    /\ Running
    /\ bg.pc = "decode"
    /\ f = "none" \/ (faults < MaxFaults /\ reached)
    /\ faults' = IF f = "none" THEN faults ELSE faults + 1
    /\ IF i >= BufCap THEN
           /\ panicked' = "index out of range"
           /\ UNCHANGED <<bg, openFds>>
       ELSE IF ~ok THEN
           \* the inner loop ends; the outer loop reads again
           /\ bg' = [bg EXCEPT !.pc = "read_enter"]
           /\ UNCHANGED <<panicked, openFds>>
       ELSE IF ~versOK THEN
           /\ panicked' = "metadata version"
           /\ UNCHANGED <<bg, openFds>>
       ELSE IF classic THEN
           /\ IF linkOK /\ f # "readlink"
              THEN publish(ClassicStream(b, i), ClassicEvent(b, i), i, bg.fileName)
              ELSE publish("Errors", "readlink", i, bg.fileName)
           /\ UNCHANGED <<panicked, openFds>>
       ELSE IF ~known THEN
           /\ bg' = Advance(bg, evlen)
           /\ UNCHANGED <<panicked, openFds>>
       ELSE IF ~inb THEN
           /\ panicked' = "slice bounds out of range"
           /\ UNCHANGED <<bg, openFds>>
       ELSE IF ~resolves \/ f = "open_by_handle_at" THEN
           /\ publish("Errors", "open_by_handle_at", i2, fileName)
           /\ UNCHANGED <<panicked, openFds>>
       ELSE IF f = "readlink" THEN
           \* n1, _ := unix.Readlink(...); string(name[:n1]) with n1 = -1
           /\ panicked' = "slice bounds out of range"
           /\ openFds' = openFds \cup {NextFd}
           /\ UNCHANGED bg
       ELSE
           /\ publish(FidStream(b, i), FidEvent(b, i, fileName, NextFd), i2, fileName)
           /\ openFds' = openFds \cup {NextFd}
           /\ UNCHANGED panicked
    /\ UNCHANGED <<w, cl, kq, nprod, pipeData, recvEvents, recvPerm, recvErrors,
                   readLog, closeCount, atClose, markVars>>

Decode == DecodeStep("none")

DecodeReadlinkFails == DecodeStep("readlink")

DecodeOpenByHandleFails == DecodeStep("open_by_handle_at")

(***************************************************************************)
(* The publishers sendNotificationEvent, sendPermissionEvent and           *)
(* sendError: the test of isClosed, then the select over the stream and    *)
(* done.  The streams are unbuffered: a send completes when a consumer     *)
(* receives.  isClosed is written by the closing task without any          *)
(* synchronisation with this task, so the test may read the value from     *)
(* before the write.                                                       *)
(***************************************************************************)
\* what the caller of a publisher does with its result
AfterSend(b, sent) ==
    CASE b.cont = "poll" ->
           [b EXCEPT !.pc = IF sent THEN "poll_enter" ELSE "defer",
                     !.snd = NoSend, !.cont = "none"]
      [] b.cont = "read" ->
           [FreshLocals(b) EXCEPT !.pc = "poll_enter"]
      [] OTHER ->
           IF sent
           THEN [Advance(b, b.evlen) EXCEPT !.pc = "decode", !.snd = NoSend,
                                            !.cont = "none", !.evlen = 0]
           ELSE [FreshLocals(b) EXCEPT !.pc = "poll_enter"]

StreamClosed(ch) ==
    CASE ch = "Events" -> w.EventsClosed
      [] ch = "PermissionEvents" -> w.PermissionEventsClosed
      [] OTHER -> w.ErrorsClosed

\* if w.isClosed { return false }
SendCheck ==
    /\ Running
    /\ bg.pc = "send_check"
    /\ bg' = IF w.isClosed THEN AfterSend(bg, FALSE)
             ELSE [bg EXCEPT !.pc = "send_select"]
    /\ UNCHANGED <<kq, openFds, readLog, panicked>>
    /\ BgUnchanged

\* the unsynchronised read sees the value from before isClosed = true
SendCheckStale ==
    /\ Running
    /\ bg.pc = "send_check"
    /\ w.isClosed
    /\ bg' = [bg EXCEPT !.pc = "send_select"]
    /\ UNCHANGED <<kq, openFds, readLog, panicked>>
    /\ BgUnchanged

Deliver(ch, val) ==
    /\ recvEvents' = IF ch = "Events" THEN Append(recvEvents, val) ELSE recvEvents
    /\ recvPerm' = IF ch = "PermissionEvents" THEN Append(recvPerm, val) ELSE recvPerm
    /\ recvErrors' = IF ch = "Errors" THEN Append(recvErrors, val) ELSE recvErrors

\* case w.Events <- event: a consumer receives; return true
SelectSend ==
    /\ Running
    /\ bg.pc = "send_select"
    /\ ~StreamClosed(bg.snd.ch)
    /\ Deliver(bg.snd.ch, bg.snd.val)
    /\ bg' = AfterSend(bg, TRUE)
    /\ UNCHANGED <<w, cl, kq, nprod, faults, openFds, pipeData, readLog,
                   closeCount, panicked, atClose, markVars>>

\* the select finds the send case on a closed channel: the send panics
SelectSendOnClosed ==
    /\ Running
    /\ bg.pc = "send_select"
    /\ StreamClosed(bg.snd.ch)
    /\ panicked' = "send on closed channel"
    /\ UNCHANGED <<w, bg, cl, kq, nprod, faults, openFds, pipeData, recvEvents,
                   recvPerm, recvErrors, readLog, closeCount, atClose, markVars>>

\* case <-w.done: return false
SelectDone ==
    /\ Running
    /\ bg.pc = "send_select"
    /\ w.doneClosed
    /\ bg' = AfterSend(bg, FALSE)
    /\ UNCHANGED <<kq, openFds, readLog, panicked>>
    /\ BgUnchanged

(***************************************************************************)
(* closeFanotify.  cl[c] is the position of task c in it:                  *)
(*   idle      not called                                                  *)
(*   once      at w.closeOnce.Do                                           *)
(*   done, write, closefd, senderr, isclosed, mountpoint, r, w, events,    *)
(*   perm, errors    the statement of the function body it is about to run *)
(*   returned  the call has returned                                       *)
(* Task 0 is the background task, which calls it from the defer of start.  *)
(***************************************************************************)
Closers == 0..NumClosers

ClUnchanged ==
    UNCHANGED <<bg, kq, nprod, faults, openFds, recvEvents, recvPerm, recvErrors,
                readLog, markVars>>

EventsReceived == Len(recvEvents) + Len(recvPerm)

\* a task calls Close; the background task does when start returns
CloseCall(c) ==
    /\ Running
    /\ cl[c] = "idle"
    /\ (c = 0) => bg.pc = "defer"
    /\ cl' = [cl EXCEPT ![c] = "once"]
    /\ UNCHANGED <<w, pipeData, closeCount, panicked, atClose>>
    /\ ClUnchanged

\* a Once that runs the function for every caller
closeOnceAlways(once) == TRUE

\* sync.Once: the first caller runs the function
closeOnceRuns(once) == once = "new"

\* w.closeOnce.Do(func() {...}): the first caller enters the body; a caller that
\* finds the body running waits for it; a later caller returns at once
OnceDo(c) ==
    /\ Running
    /\ cl[c] = "once"
    /\ \/ /\ closeOnceRuns(w.closeOnce)
          /\ w' = [w EXCEPT !.closeOnce = "running"]
          /\ cl' = [cl EXCEPT ![c] = "done"]
       \/ /\ ~closeOnceRuns(w.closeOnce)
          /\ w.closeOnce = "finished"
          /\ cl' = [cl EXCEPT ![c] = "returned"]
          /\ UNCHANGED w
    /\ UNCHANGED <<pipeData, closeCount, panicked, atClose, markVars>>
    /\ ClUnchanged

Closed(r) == closeCount' = [closeCount EXCEPT ![r] = @ + 1]

\* close(w.done)
CloseDone(c) ==
    /\ Running
    /\ cl[c] = "done"
    /\ IF w.doneClosed
       THEN /\ panicked' = "close of closed channel"
            /\ UNCHANGED <<w, cl, closeCount>>
       ELSE /\ w' = [w EXCEPT !.doneClosed = TRUE]
            /\ cl' = [cl EXCEPT ![c] = "write"]
            /\ Closed("done")
            /\ UNCHANGED panicked
    /\ atClose' = EventsReceived
    /\ UNCHANGED pipeData
    /\ ClUnchanged

\* unix.Write(int(w.stopper.w.Fd()), []byte("stop"))
WriteStop(c) ==
    /\ Running
    /\ cl[c] = "write"
    /\ pipeData' = IF w.wOpen THEN pipeData + 1 ELSE pipeData
    /\ cl' = [cl EXCEPT ![c] = "closefd"]
    /\ UNCHANGED <<w, closeCount, panicked, atClose, markVars>>
    /\ ClUnchanged

\* if err := unix.Close(w.fd); err != nil: close fails with EBADF on a closed
\* descriptor; it can also report an errno although the descriptor is released
CloseFd(c) ==
    /\ Running
    /\ cl[c] = "closefd"
    /\ w' = [w EXCEPT !.fdOpen = FALSE]
    /\ Closed("fd")
    /\ \/ /\ w.fdOpen
          /\ cl' = [cl EXCEPT ![c] = "isclosed"]
          /\ UNCHANGED faults
       \/ /\ w.fdOpen
          /\ faults < MaxFaults
          /\ faults' = faults + 1
          /\ cl' = [cl EXCEPT ![c] = "senderr"]
       \/ /\ ~w.fdOpen
          /\ cl' = [cl EXCEPT ![c] = "senderr"]
          /\ UNCHANGED faults
    /\ UNCHANGED <<bg, kq, nprod, openFds, recvEvents, recvPerm, recvErrors,
                   readLog, pipeData, panicked, atClose, markVars>>

\* w.Errors <- err: completes when a consumer receives
CloseSendError(c) ==
    /\ Running
    /\ cl[c] = "senderr"
    /\ IF w.ErrorsClosed
       THEN /\ panicked' = "send on closed channel"
            /\ UNCHANGED <<cl, recvErrors>>
       ELSE /\ recvErrors' = Append(recvErrors, "close")
            /\ cl' = [cl EXCEPT ![c] = "isclosed"]
            /\ UNCHANGED panicked
    /\ UNCHANGED <<w, bg, kq, nprod, faults, openFds, pipeData, recvEvents,
                   recvPerm, readLog, closeCount, atClose, markVars>>

\* w.isClosed = true
SetIsClosed(c) ==
    /\ Running
    /\ cl[c] = "isclosed"
    /\ w' = [w EXCEPT !.isClosed = TRUE]
    /\ cl' = [cl EXCEPT ![c] = "mountpoint"]
    /\ UNCHANGED <<pipeData, closeCount, panicked, atClose, markVars>>
    /\ ClUnchanged

\* w.mountPointFile.Close(): on a nil *os.File it returns ErrInvalid
CloseMountPoint(c) ==
    /\ Running
    /\ cl[c] = "mountpoint"
    /\ IF w.mountPointFile = "nil"
       THEN UNCHANGED <<w, closeCount>>
       ELSE /\ w' = [w EXCEPT !.mountPointFile = "closed"]
            /\ Closed("mountPointFile")
    /\ cl' = [cl EXCEPT ![c] = "r"]
    /\ UNCHANGED <<pipeData, panicked, atClose>>
    /\ ClUnchanged

\* w.stopper.r.Close()
CloseStopperR(c) ==
    /\ Running
    /\ cl[c] = "r"
    /\ w' = [w EXCEPT !.rOpen = FALSE]
    /\ Closed("stopper.r")
    /\ cl' = [cl EXCEPT ![c] = "w"]
    /\ UNCHANGED <<pipeData, panicked, atClose>>
    /\ ClUnchanged

\* w.stopper.w.Close()
CloseStopperW(c) ==
    /\ Running
    /\ cl[c] = "w"
    /\ w' = [w EXCEPT !.wOpen = FALSE]
    /\ Closed("stopper.w")
    /\ cl' = [cl EXCEPT ![c] = "events"]
    /\ UNCHANGED <<pipeData, panicked, atClose>>
    /\ ClUnchanged

\* close(ch) of a channel: closing a closed channel panics
CloseChannel(c, at, ch, closed, wNext, next) ==
    /\ Running
    /\ cl[c] = at
    /\ IF closed
       THEN /\ panicked' = "close of closed channel"
            /\ UNCHANGED <<w, cl, closeCount>>
       ELSE /\ w' = wNext
            /\ cl' = [cl EXCEPT ![c] = next]
            /\ Closed(ch)
            /\ UNCHANGED panicked
    /\ UNCHANGED <<pipeData, atClose>>
    /\ ClUnchanged

\* closeFanotify without close(w.Events)
CloseEventsSkipped(c) ==
    /\ Running
    /\ cl[c] = "events"
    /\ cl' = [cl EXCEPT ![c] = "perm"]
    /\ UNCHANGED <<w, pipeData, closeCount, panicked, atClose>>
    /\ ClUnchanged

\* close(w.Events)
CloseEvents(c) ==
    CloseChannel(c, "events", "Events", w.EventsClosed,
                 [w EXCEPT !.EventsClosed = TRUE], "perm")

\* close(w.PermissionEvents)
ClosePermissionEvents(c) ==
    CloseChannel(c, "perm", "PermissionEvents", w.PermissionEventsClosed,
                 [w EXCEPT !.PermissionEventsClosed = TRUE], "errors")

\* close(w.Errors); the function returns and closeOnce.Do with it
CloseErrors(c) ==
    CloseChannel(c, "errors", "Errors", w.ErrorsClosed,
                 [w EXCEPT !.ErrorsClosed = TRUE, !.closeOnce = "finished"],
                 "returned")

\* start ends when its deferred closeFanotify has returned
BgExit ==
    /\ Running
    /\ bg.pc = "defer"
    /\ cl[0] = "returned"
    /\ bg' = [bg EXCEPT !.pc = "exited"]
    /\ UNCHANGED <<w, cl, kq, nprod, faults, openFds, pipeData, recvEvents,
                   recvPerm, recvErrors, readLog, closeCount, panicked, atClose, markVars>>

closeFanotify(c) ==
    \/ OnceDo(c)
    \/ CloseDone(c)
    \/ WriteStop(c)
    \/ CloseFd(c)
    \/ CloseSendError(c)
    \/ SetIsClosed(c)
    \/ CloseMountPoint(c)
    \/ CloseStopperR(c)
    \/ CloseStopperW(c)
    \/ CloseEvents(c)
    \/ ClosePermissionEvents(c)
    \/ CloseErrors(c)

(***************************************************************************)
(* The file system the mount resolver sees: the paths a caller passes, the *)
(* device each is on (unix.Stat(path).Dev), and the lines of /etc/fstab.   *)
(* Device numbers are positive: the kernel does not hand out device 0.     *)
(***************************************************************************)
Paths == {"/a/x", "/b/y", "/gone"}

\* unix.Stat(path): the paths that exist and the device of each
StatDev ==
    [p \in {"/a", "/a/x", "/b", "/b/y"} |->
        IF p \in {"/a", "/a/x"} THEN 1 ELSE 2]

StatOK(p) == p \in DOMAIN StatDev

\* the errno of unix.Stat for a path that cannot be stat-ed
StatErr(p) == IF p = "/secret" THEN "EACCES" ELSE "ENOENT"

\* a line of /etc/fstab as the scanner loop classifies it
FsLine(file, vfstype) == [kind |-> "fs", file |-> file, vfstype |-> vfstype]

CommentLine == [kind |-> "comment", file |-> "", vfstype |-> ""]

\* the mount table that lists both mounts
FstabBoth == <<FsLine("/a", "ext4"), FsLine("/b", "ext4")>>

\* the mount tables of the model: both mounts listed; or a comment, a swap
\* line, a mount point that cannot be stat-ed, and only the first mount
FstabChoices ==
    { FstabBoth,
      <<CommentLine, FsLine("none", "swap"), FsLine("/missing", "ext4"),
        FsLine("/a", "ext4")>> }

\* the result of getMountPointForPath
MountResult(path, dev, err) == [mountPointPath |-> path, devID |-> dev, err |-> err]

\* the for scanner.Scan() loop of getMountPointForPath, from line k on
RECURSIVE ScanFstab(_, _, _, _)
ScanFstab(tab, k, pathDev, fsErr) ==
    IF k > Len(tab) THEN
        IF fsErr # "nil"
        THEN MountResult("", 0, "cannot stat paths in fstab: " \o fsErr)
        ELSE MountResult("", 0, "cannot stat paths in fstab")
    ELSE IF tab[k].kind # "fs" THEN ScanFstab(tab, k + 1, pathDev, fsErr)
    ELSE IF tab[k].vfstype = "swap" THEN ScanFstab(tab, k + 1, pathDev, fsErr)
    ELSE IF ~StatOK(tab[k].file)
    THEN ScanFstab(tab, k + 1, pathDev, StatErr(tab[k].file))
    ELSE IF pathDev = StatDev[tab[k].file]
    THEN MountResult(tab[k].file, pathDev, "nil")
    ELSE ScanFstab(tab, k + 1, pathDev, fsErr)

\* getMountPointForPath; f names the step that is made to fail ("none",
\* "fstab": os.Open of the table, "scan": the scanner stops with an error
\* before the first line).  The scanner error is wrapped from err, which is
\* nil at that point.
getMountPointForPath(path, tab, f) ==
    IF f = "fstab" THEN MountResult("", 0, "open /etc/fstab")
    ELSE IF ~StatOK(path) THEN MountResult("", 0, "cannot stat path")
    ELSE IF f = "scan" THEN MountResult("", 0, "error reading fstab: %!w(<nil>)")
    ELSE ScanFstab(tab, 1, StatDev[path], "nil")

\* the function given to w.findMountPoint.Do; f = "open" makes os.Open of the
\* mount point fail
FindMountPoint(r, path, tab, f) ==
    LET m == getMountPointForPath(path, tab, f)
    IN  IF m.err # "nil" \/ f = "open" THEN r
        ELSE [r EXCEPT !.mountPointFile = "open", !.mountDeviceID = m.devID]

\* a Do that runs the function on every call
findMountPointDoAlways(r, path, tab, f) ==
    [FindMountPoint(r, path, tab, f) EXCEPT !.findMountPoint = "done"]

\* w.findMountPoint.Do(...): the function runs on the first call only
findMountPointDo(r, path, tab, f) ==
    IF r.findMountPoint = "new"
    THEN [FindMountPoint(r, path, tab, f) EXCEPT !.findMountPoint = "done"]
    ELSE r

\* a check that accepts every path that exists
checkPathAlways(r, path) == TRUE

\* a check that accepts exactly the paths of the other devices
checkPathOtherDevice(r, path) == StatDev[path] # r.mountDeviceID

\* checkPathUnderMountPoint: the value returned when stat succeeds
checkPathUnderMountPoint(r, path) == StatDev[path] = r.mountDeviceID

(***************************************************************************)
(* The masks of the mark calls.  The event-type constants or-ed in         *)
(* fanotifyAddPath and fanotifyRemove are declared outside the files at    *)
(* hand; each is taken to be the fanotify bit its name says, the           *)
(* ...OrDirectory... ones with FAN_ONDIR.                                  *)
(***************************************************************************)
AddEventTypes ==
    FAN_ACCESS \cup FAN_MODIFY \cup FAN_OPEN_EXEC \cup FAN_ATTRIB \cup FAN_CREATE
    \cup FAN_DELETE \cup FAN_DELETE_SELF \cup FAN_MOVED_FROM \cup FAN_MOVED_TO
    \cup FAN_MOVE_SELF \cup FAN_ONDIR

\* the events the kernel accepts only from a group that reports file ids
FidOnlyEvents ==
    FAN_ATTRIB \cup FAN_CREATE \cup FAN_DELETE \cup FAN_DELETE_SELF
    \cup FAN_MOVED_FROM \cup FAN_MOVED_TO \cup FAN_MOVE_SELF

\* the result of a mark call and the marks it leaves
MarkResult(ret, syscall, m) == [ret |-> ret, syscall |-> syscall, marks |-> m]

\* unix.FanotifyMark(w.fd, flags, mask, -1, path) as the kernel answers it
FanotifyMark(r, m, path, flags, mask) ==
    IF ~r.fdOpen THEN MarkResult("EBADF", TRUE, m)
    ELSE IF isSet(flags, FAN_MARK_FLUSH)
    THEN MarkResult("nil", TRUE, [p \in Paths |-> {}])
    ELSE IF /\ mask \cap FidOnlyEvents # {}
            /\ \/ r.flags \cap (FAN_REPORT_FID \cup FAN_REPORT_DIR_FID) = {}
               \/ isSet(flags, FAN_MARK_MOUNT)
    THEN MarkResult("EINVAL", TRUE, m)
    ELSE IF ~StatOK(path) THEN MarkResult("ENOENT", TRUE, m)
    ELSE IF isSet(flags, FAN_MARK_REMOVE)
    THEN IF m[path] = {} THEN MarkResult("ENOENT", TRUE, m)
         ELSE MarkResult("nil", TRUE, [m EXCEPT ![path] = @ \ mask])
    ELSE MarkResult("nil", TRUE, [m EXCEPT ![path] = @ \cup mask])

\* fanotifyMark after the kernel-support test has passed
fanotifyMark(r, m, path, flags, mask) ==
    IF ~isFanotifyMarkMaskValid(flags, mask)
    THEN MarkResult("errInvalidFlagCombination", FALSE, m)
    ELSE FanotifyMark(r, m, path, flags, mask)

(***************************************************************************)
(* The calls of a client task: fanotifyAddPath, fanotifyRemove and         *)
(* clearWatch.  lastCall is the call in progress or the last one made:     *)
(*   stage       idle, or the statement an Add is about to run             *)
(*               ("findMountPoint", "mark")                                *)
(*   ret         what the call returned                                    *)
(*   syscall     fanotify_mark was issued                                  *)
(*   fdOpen      the notification fd was open when it was issued           *)
(*   afterClose  a Close call had returned when the call began             *)
(*   mountFile   w.mountPointFile when the call ended                      *)
(*   before      the kernel's marks when the call began                    *)
(*   prev        the call made before this one                             *)
(***************************************************************************)
NoMarks == [p \in Paths |-> {}]

\* what is kept of the call before the last one
NoPrev == [op |-> "none", path |-> "", ret |-> "none", before |-> NoMarks]

NoCall ==
    [op |-> "none", path |-> "", stage |-> "idle", ret |-> "none",
     syscall |-> FALSE, fdOpen |-> FALSE, afterClose |-> FALSE,
     mountFile |-> "nil", before |-> NoMarks, prev |-> NoPrev]

\* The permission decisions.  access[p] is the state of the access that made
\* the kernel produce record p: "none" (the record is no permission request),
\* "blocked", "allowed" or "denied" by a response, "released" when the group
\* was destroyed with the request unanswered.  responses are the records the
\* kernel has taken from writes to the notification fd, calls the Allow and
\* Deny calls of the consumer.
NoPerm ==
    [access |-> [p \in 1..MaxRecords |-> "none"], responses |-> <<>>, calls |-> <<>>]

\* no function has been called on its own
NoEval == [fn |-> "none"]

\* a Close call of a client task has returned
CloseReturned == \E c \in 1..NumClosers : cl[c] = "returned"

CallBegins(op, path) ==
    [NoCall EXCEPT !.op = op, !.path = path, !.afterClose = CloseReturned,
                   !.before = marks,
                   !.prev = [op |-> lastCall.op, path |-> lastCall.path,
                             ret |-> lastCall.ret, before |-> lastCall.before]]

CallEnds(call, r, res) ==
    [call EXCEPT !.stage = "idle", !.ret = res.ret, !.syscall = res.syscall,
                 !.fdOpen = res.syscall /\ r.fdOpen,
                 !.mountFile = r.mountPointFile]

ApiUnchanged ==
    UNCHANGED <<bg, cl, kq, nprod, openFds, pipeData, recvEvents, recvPerm,
                recvErrors, readLog, closeCount, atClose, fstab, perm, eval>>

CanCall == Running /\ lastCall.stage = "idle" /\ ncalls < MaxCalls

\* the panic of fanotifyMark when fanotifyMarkFlagsKernelSupport says no; the
\* verdict is any of those the map order allows
MarkCall(call, path, flags, mask) ==
    \E v \in fanotifyMarkFlagsKernelSupport(mask, w.kernelMajorVersion,
                                            w.kernelMinorVersion) :
        IF ~v
        THEN /\ panicked' = "mark mask not supported on the current kernel"
             /\ UNCHANGED <<marks, lastCall>>
        ELSE LET res == fanotifyMark(w, marks, path, flags, mask)
             IN  /\ marks' = res.marks
                 /\ lastCall' = CallEnds(call, w, res)
                 /\ UNCHANGED panicked

\* fanotifyAddPath: if w.isClosed { return ErrClosed }
fanotifyAddPath(p) ==
    /\ CanCall
    /\ ncalls' = ncalls + 1
    /\ lastCall' = IF w.isClosed
                   THEN CallEnds(CallBegins("Add", p), w,
                                 MarkResult("ErrClosed", FALSE, marks))
                   ELSE [CallBegins("Add", p) EXCEPT !.stage = "findMountPoint"]
    /\ UNCHANGED <<w, marks, faults, panicked>>
    /\ ApiUnchanged

\* fanotifyAddPath: w.findMountPoint.Do(...), then checkPathUnderMountPoint
AddFindMountPoint(f) ==
    /\ Running
    /\ lastCall.stage = "findMountPoint"
    /\ f = "none" \/ (w.findMountPoint = "new" /\ faults < MaxFaults)
    /\ faults' = IF f = "none" THEN faults ELSE faults + 1
    /\ w' = findMountPointDo(w, lastCall.path, fstab, f)
    /\ lastCall' =
         IF ~StatOK(lastCall.path)
         THEN CallEnds(lastCall, w', MarkResult("cannot stat", FALSE, marks))
         ELSE IF ~checkPathUnderMountPoint(w', lastCall.path)
         THEN CallEnds(lastCall, w', MarkResult("ErrMountPoint", FALSE, marks))
         ELSE [lastCall EXCEPT !.stage = "mark"]
    /\ UNCHANGED <<marks, ncalls, panicked>>
    /\ ApiUnchanged

AddFindMountPointOK == AddFindMountPoint("none")

AddFstabOpenFails == AddFindMountPoint("fstab")

AddFstabScanFails == AddFindMountPoint("scan")

AddMountOpenFails == AddFindMountPoint("open")

\* fanotifyAddPath: return w.fanotifyMark(path, unix.FAN_MARK_ADD, ...)
AddMark ==
    /\ Running
    /\ lastCall.stage = "mark"
    /\ MarkCall(lastCall, lastCall.path, FAN_MARK_ADD,
                AddEventTypes \cup FAN_EVENT_ON_CHILD)
    /\ UNCHANGED <<w, ncalls, faults>>
    /\ ApiUnchanged

\* a Remove that clears the access bit only
fanotifyRemoveAccessOnly(p) ==
    /\ CanCall
    /\ ncalls' = ncalls + 1
    /\ MarkCall(CallBegins("Remove", p), p, FAN_MARK_REMOVE, FAN_ACCESS)
    /\ UNCHANGED <<w, faults>>
    /\ ApiUnchanged

\* fanotifyRemove
fanotifyRemove(p) ==
    /\ CanCall
    /\ ncalls' = ncalls + 1
    /\ MarkCall(CallBegins("Remove", p), p, FAN_MARK_REMOVE,
                AddEventTypes \cup FAN_EVENT_ON_CHILD)
    /\ UNCHANGED <<w, faults>>
    /\ ApiUnchanged

\* clearWatch: the flush; w.markMask = 0 is the only field it writes
clearWatch ==
    /\ CanCall
    /\ ncalls' = ncalls + 1
    /\ LET res == FanotifyMark(w, marks, "", FAN_MARK_FLUSH, {})
       IN  /\ marks' = res.marks
           /\ lastCall' = CallEnds(CallBegins("Clear", ""), w, res)
    /\ UNCHANGED <<w, faults, panicked>>
    /\ ApiUnchanged

\* the state after construction, for a mount table tab
InitWith(tabs) ==
    /\ \E v \in KernelVersions : w = newFanotifyWatcher(v[1], v[2])
    /\ bg = [pc |-> "poll_enter", pv0 |-> FALSE, pv1 |-> FALSE, rv |-> FALSE,
             buf |-> <<>>, n |-> 0, i |-> 0, evlen |-> 0, fileName |-> <<>>,
             snd |-> NoSend, cont |-> "none", nread |-> 0]
    /\ cl = [c \in 0..NumClosers |-> "idle"]
    /\ kq = <<>>
    /\ nprod = 0
    /\ faults = 0
    /\ openFds = {}
    /\ pipeData = 0
    /\ recvEvents = <<>>
    /\ recvPerm = <<>>
    /\ recvErrors = <<>>
    /\ readLog = <<>>
    /\ closeCount = [r \in Resources |-> 0]
    /\ panicked = ""
    /\ atClose = -1
    /\ fstab \in tabs
    /\ marks = NoMarks
    /\ ncalls = 0
    /\ lastCall = NoCall
    /\ perm = NoPerm
    /\ eval = NoEval

Init == InitWith({FstabBoth})

InitMark == InitWith(FstabChoices)

\* the steps of the background task
BgStep ==
    \/ PollEnter
    \/ PollReturn
    \/ PollInterrupted
    \/ PollError
    \/ ReadEnter
    \/ ReadReturn
    \/ ReadInterrupted
    \/ ReadBadFd
    \/ ReadError
    \/ Decode
    \/ DecodeReadlinkFails
    \/ DecodeOpenByHandleFails
    \/ SendCheck
    \/ SendCheckStale
    \/ SelectSend
    \/ SelectSendOnClosed
    \/ SelectDone
    \/ BgExit

\* the steps of the tasks that call Close
CloseStep == \E c \in Closers : CloseCall(c) \/ closeFanotify(c)

\* the steps of the client task that marks paths
ApiStep ==
    \/ \E p \in Paths : fanotifyAddPath(p)
    \/ AddFindMountPointOK
    \/ AddFstabOpenFails
    \/ AddFstabScanFails
    \/ AddMountOpenFails
    \/ AddMark
    \/ \E p \in Paths : fanotifyRemove(p)
    \/ clearWatch

\* no record has been produced and no task has called Close
Setup == nprod = 0 /\ ncalls = 0 /\ \A c \in Closers : cl[c] = "idle"

\* the path the client watches when events flow
WatchedPath == "/a/x"

\* a client adds its first watch before events flow
FirstAdd == Setup /\ fanotifyAddPath(WatchedPath)

AddStep ==
    \/ FirstAdd
    \/ AddFindMountPointOK
    \/ AddMark

\* no call of the client is in progress
Quiet == lastCall.stage = "idle"

\* The client's first Add runs to its end before records arrive and before
\* Close is called; NextMark has the calls that run while Close does.
Next ==
    \/ Quiet /\ KernelEvent
    \/ BgStep
    \/ \E c \in Closers : (Quiet /\ CloseCall(c)) \/ closeFanotify(c)
    \/ AddStep

Spec == Init /\ [][Next]_vars

\* the steps the background task takes when no syscall is made to fail
BgProgress ==
    \/ PollEnter
    \/ PollReturn
    \/ ReadEnter
    \/ ReadReturn
    \/ ReadBadFd
    \/ Decode
    \/ SendCheck
    \/ SelectSend
    \/ SelectSendOnClosed
    \/ SelectDone
    \/ BgExit

\* the steps of a Close in progress, and the Close of the background task
CloseProgress == CloseCall(0) \/ \E c \in Closers : closeFanotify(c)

\* Spec with the scheduling the runtime gives: a task that can run does run,
\* and a consumer receives what is sent.  Nothing makes the kernel produce a
\* record or a client call Close.
SpecFair == Spec /\ WF_vars(BgProgress) /\ WF_vars(CloseProgress)

\* The kernel drops records when the queue of the group is full and queues
\* one overflow record in their place.  The queue limit is far above the
\* records of the model, so the overflow record is one more record that can
\* arrive whenever a record can.
KernelOverflow ==
    /\ Running
    /\ Quiet
    /\ GroupAlive
    /\ nprod < MaxRecords
    /\ kq' = Append(kq, [kind |-> "overflow", mask |-> FAN_Q_OVERFLOW,
                         pid |-> nprod + 1, name |-> <<>>])
    /\ nprod' = nprod + 1
    /\ UNCHANGED <<w, bg, cl, faults, openFds, pipeData, recvEvents, recvPerm,
                   recvErrors, readLog, closeCount, panicked, atClose, markVars>>

NextOverflow == KernelOverflow \/ Next

(***************************************************************************)
(* The program with no consumer: nothing receives from Events,             *)
(* PermissionEvents or Errors, so no send on them completes.  The          *)
(* publishers of the background task leave their select through done;      *)
(* the send of closeFanotify has no other case.                            *)
(***************************************************************************)
\* the steps of the background task that need no consumer
BgNoConsumer ==
    \/ PollEnter
    \/ PollReturn
    \/ ReadEnter
    \/ ReadReturn
    \/ ReadBadFd
    \/ Decode
    \/ SendCheck
    \/ SelectSendOnClosed
    \/ SelectDone
    \/ BgExit

\* the statements of closeFanotify that need no consumer: all of them but
\* w.Errors <- err
CloseNoConsumer(c) ==
    \/ OnceDo(c)
    \/ CloseDone(c)
    \/ WriteStop(c)
    \/ CloseFd(c)
    \/ SetIsClosed(c)
    \/ CloseMountPoint(c)
    \/ CloseStopperR(c)
    \/ CloseStopperW(c)
    \/ CloseEvents(c)
    \/ ClosePermissionEvents(c)
    \/ CloseErrors(c)

CloseProgressNoConsumer == CloseCall(0) \/ \E c \in Closers : CloseNoConsumer(c)

NextNoConsumer ==
    \/ Quiet /\ KernelEvent
    \/ BgNoConsumer
    \/ \E c \in Closers : (Quiet /\ CloseCall(c)) \/ CloseNoConsumer(c)
    \/ AddStep

\* a task that can run does run; nothing makes the kernel produce a record
\* or a client call Close
SpecNoConsumer ==
    /\ Init
    /\ [][NextNoConsumer]_vars
    /\ WF_vars(BgNoConsumer)
    /\ WF_vars(CloseProgressNoConsumer)

\* Spec with a kernel whose queue can overflow
SpecOverflow == Init /\ [][NextOverflow]_vars

\* the client task and the tasks that call Close, with no events
NextMark ==
    \/ CloseStep
    \/ ApiStep

SpecMark == InitMark /\ [][NextMark]_vars

(***************************************************************************)
(* The functions of the source called on their own, over all the inputs of *)
(* a bounded set: the mask mapping, the constructor, the kernel-support    *)
(* tests and fanotifyMark with any flags and mask.  eval records the call  *)
(* and what it returned.                                                   *)
(***************************************************************************)
\* the event bits toOp looks at, and FAN_ONDIR
OpBits ==
    FAN_ACCESS \cup FAN_MODIFY \cup FAN_ATTRIB \cup FAN_CLOSE_WRITE
    \cup FAN_CLOSE_NOWRITE \cup FAN_OPEN \cup FAN_MOVED_FROM \cup FAN_MOVED_TO
    \cup FAN_CREATE \cup FAN_DELETE \cup FAN_DELETE_SELF \cup FAN_MOVE_SELF
    \cup FAN_OPEN_EXEC \cup FAN_OPEN_PERM \cup FAN_ACCESS_PERM
    \cup FAN_OPEN_EXEC_PERM \cup FAN_ONDIR

\* the kernel versions the functions are called with
Majors == {4, 5, 6}
Minors == {0, 1, 8, 9, 14, 15}

\* the fanotify_init flags and the mark mask bits of the two support tables
InitFlagBits ==
    FAN_ENABLE_AUDIT \cup FAN_REPORT_FID \cup FAN_REPORT_DIR_FID \cup FAN_REPORT_NAME

MarkFlagBits ==
    FAN_OPEN_EXEC \cup FAN_ATTRIB \cup FAN_CREATE \cup FAN_DELETE
    \cup FAN_DELETE_SELF \cup FAN_MOVED_FROM \cup FAN_MOVED_TO

\* the mask of AddMountPoint, and the mask its older version passes
AddMountPointMask ==
    FAN_ACCESS \cup FAN_MODIFY \cup FAN_CLOSE_WRITE \cup FAN_CLOSE_NOWRITE
    \cup FAN_OPEN \cup FAN_OPEN_EXEC

AddMountPointMaskOld ==
    FAN_DELETE \cup FAN_MODIFY \cup FAN_MOVE_SELF \cup FAN_MOVED_FROM
    \cup FAN_MOVED_TO \cup FAN_DELETE_SELF \cup FAN_ATTRIB \cup FAN_CLOSE_WRITE
    \cup FAN_CLOSE_NOWRITE \cup FAN_OPEN_EXEC

\* the masks fanotifyMark is called with: those of the bits a mount mark must
\* not carry, of a bit it may carry, and the two masks of AddMountPoint
MarkMasks ==
    SUBSET (FAN_CREATE \cup FAN_ATTRIB \cup FAN_MOVED_FROM \cup FAN_MOVED_TO
            \cup FAN_DELETE_SELF \cup FAN_DELETE \cup FAN_MODIFY)
    \cup {AddMountPointMask, AddMountPointMaskOld}

MarkFlagChoices ==
    {FAN_MARK_ADD, FAN_MARK_ADD \cup FAN_MARK_MOUNT, FAN_MARK_REMOVE \cup FAN_MARK_MOUNT}

\* the steps of the constructor that can fail
ConstructFaults == {"none", "capability", "kernelVersion", "init", "pipe", "getfl", "setfl"}

\* what a call of the constructor leaves behind
Constructed(ret, initCalled, fd, pipe, panic, flags) ==
    [ret |-> ret, watcher |-> ret = "nil", initCalled |-> initCalled,
     fdOpen |-> fd, pipeOpen |-> pipe, panic |-> panic, task |-> FALSE,
     flags |-> flags, eventFlags |-> EventFlags]

\* newFanotifyWatcher with the step f made to fail: the set of outcomes (the
\* kernel-support test has more than one verdict when the map order matters)
newFanotifyWatcherCall(maj, min, f) ==
    LET flags == InitFlags(maj, min)
    IN  IF f = "kernelVersion"
        THEN {Constructed("kernelVersion", FALSE, FALSE, FALSE, FALSE, {})}
        ELSE IF ~flagsValid(flags)
        THEN {Constructed("errInvalidFlagCombination", FALSE, FALSE, FALSE, FALSE, flags)}
        ELSE
          { IF ~v THEN Constructed("panic", FALSE, FALSE, FALSE, TRUE, flags)
            ELSE IF f = "init" THEN Constructed("EMFILE", TRUE, FALSE, FALSE, FALSE, flags)
            ELSE IF f = "pipe"
            THEN Constructed("cannot create stopper pipe", TRUE, TRUE, FALSE, FALSE, flags)
            ELSE IF f = "getfl"
            THEN Constructed("stopper error: cannot read fd flags", TRUE, TRUE, TRUE, FALSE, flags)
            ELSE IF f = "setfl"
            THEN Constructed("stopper error: cannot set fd to non-blocking", TRUE, TRUE, TRUE, FALSE, flags)
            ELSE Constructed("nil", TRUE, TRUE, TRUE, FALSE, flags)
            : v \in fanotifyInitFlagsKernelSupport(flags, maj, min) }

\* NewFanotifyWatcher: the capability probe, newFanotifyWatcher, go w.start()
NewFanotifyWatcher(cap, maj, min, f) ==
    IF f = "capability"
    THEN {Constructed("checkCapSysAdmin", FALSE, FALSE, FALSE, FALSE, {})}
    ELSE IF ~cap
    THEN {Constructed("ErrCapSysAdmin", FALSE, FALSE, FALSE, FALSE, {})}
    ELSE {[o EXCEPT !.task = (o.ret = "nil")] : o \in newFanotifyWatcherCall(maj, min, f)}

\* a function is called once, from the state after construction
CanEval == Running /\ eval = NoEval /\ \A c \in Closers : cl[c] = "idle"

EvalUnchanged ==
    UNCHANGED <<w, bg, cl, kq, nprod, faults, openFds, pipeData, recvEvents,
                recvPerm, recvErrors, readLog, closeCount, panicked, atClose,
                fstab, marks, ncalls, lastCall, perm>>

\* Op: fanotifyEventType(mask).toOp() after the FAN_ONDIR bit is cleared
EvalToOp ==
    /\ CanEval
    /\ \E mask \in SUBSET OpBits :
         eval' = [fn |-> "toOp", mask |-> mask, op |-> toOp(ClearOnDir(mask))]
    /\ EvalUnchanged

EvalNewFanotifyWatcher ==
    /\ CanEval
    /\ \E cap \in BOOLEAN, maj \in Majors, min \in Minors, f \in ConstructFaults :
         \E o \in NewFanotifyWatcher(cap, maj, min, f) :
           eval' = [fn |-> "NewFanotifyWatcher", cap |-> cap, maj |-> maj,
                    min |-> min, fail |-> f, out |-> o]
    /\ EvalUnchanged

EvalInitFlagsKernelSupport ==
    /\ CanEval
    /\ \E flags \in SUBSET InitFlagBits, maj \in Majors, min \in Minors :
         \E v \in fanotifyInitFlagsKernelSupport(flags, maj, min) :
           eval' = [fn |-> "fanotifyInitFlagsKernelSupport", flags |-> flags,
                    maj |-> maj, min |-> min, out |-> v]
    /\ EvalUnchanged

EvalMarkFlagsKernelSupport ==
    /\ CanEval
    /\ \E flags \in SUBSET MarkFlagBits, maj \in Majors, min \in Minors :
         \E v \in fanotifyMarkFlagsKernelSupport(flags, maj, min) :
           eval' = [fn |-> "fanotifyMarkFlagsKernelSupport", flags |-> flags,
                    maj |-> maj, min |-> min, out |-> v]
    /\ EvalUnchanged

\* w.fanotifyMark(path, flags, mask) on the watcher of this kernel; with
\* FAN_MARK_MOUNT the kernel marks the mount the path is on
EvalFanotifyMark ==
    /\ CanEval
    /\ \E flags \in MarkFlagChoices, mask \in MarkMasks :
         \E v \in fanotifyMarkFlagsKernelSupport(mask, w.kernelMajorVersion,
                                                 w.kernelMinorVersion) :
           eval' = [fn |-> "fanotifyMark", flags |-> flags, mask |-> mask,
                    panic |-> ~v,
                    out |-> IF v THEN fanotifyMark(w, marks, WatchedPath, flags, mask)
                            ELSE MarkResult("panic", FALSE, marks)]
    /\ EvalUnchanged

\* the mount tables given to getMountPointForPath: those of FstabChoices,
\* and one with a comment, a swap line, two mount points that cannot be
\* stat-ed for different reasons, and the second mount
ResolverTables ==
    FstabChoices \cup
    { <<CommentLine, FsLine("none", "swap"), FsLine("/secret", "ext4"),
        FsLine("/missing", "ext4"), FsLine("/b", "ext4")>> }

EvalGetMountPointForPath ==
    /\ CanEval
    /\ \E path \in Paths, tab \in ResolverTables, f \in {"none", "fstab", "scan"} :
         eval' = [fn |-> "getMountPointForPath", path |-> path, tab |-> tab,
                  fail |-> f, out |-> getMountPointForPath(path, tab, f)]
    /\ EvalUnchanged

\* The inner loop of readFanotifyEvents on a read that returned k classic
\* records, each of the size of the metadata and each delivered: only the
\* offset i and the count n are followed.  eval.done is set when the loop
\* has ended.
ReadCounts == {1, BufRecords - 1, BufRecords}

\* n, err := unix.Read(w.fd, buf[:]); i := 0
EvalReadFull ==
    /\ CanEval
    /\ \E k \in ReadCounts :
         eval' = [fn |-> "readFanotifyEvents", records |-> k,
                  nread |-> k * sizeOfFanotifyEventMetadata,
                  i |-> 0, n |-> k * sizeOfFanotifyEventMetadata,
                  panic |-> FALSE, done |-> FALSE]
    /\ EvalUnchanged

\* metadata = (*unix.FanotifyEventMetadata)(unsafe.Pointer(&buf[i])), where
\* an index equal to the length of the array panics; then the test
\* fanotifyEventOK(metadata, n) and, for a record, the body that delivers it
\* and advances
EvalInnerLoopPass ==
    /\ Running
    /\ eval.fn = "readFanotifyEvents"
    /\ ~eval.done
    /\ eval' = IF eval.i >= BufCap
               THEN [eval EXCEPT !.panic = TRUE, !.done = TRUE]
               ELSE IF eval.n >= sizeOfFanotifyEventMetadata
               THEN Advance(eval, sizeOfFanotifyEventMetadata)
               ELSE [eval EXCEPT !.done = TRUE]
    /\ EvalUnchanged

NextFn ==
    \/ EvalReadFull
    \/ EvalInnerLoopPass
    \/ EvalGetMountPointForPath
    \/ EvalToOp
    \/ EvalNewFanotifyWatcher
    \/ EvalInitFlagsKernelSupport
    \/ EvalMarkFlagsKernelSupport
    \/ EvalFanotifyMark

SpecFn == Init /\ [][NextFn]_vars

(***************************************************************************)
(* Permission events.  A watcher of a kernel without file ids is marked    *)
(* with AddWithPermissions; an open of a watched file then waits in the    *)
(* kernel for the decision of the consumer, which answers with Allow or    *)
(* Deny.  Every record of this specification is a classic one.             *)
(***************************************************************************)
\* the descriptor the kernel opened for the k-th record read
FdOfRecord(k) == (NextFd - Cardinality(openFds)) + (k - 1)

\* the kernel queues a record for an access to a watched file; an access
\* that asks permission waits
KernelPermEvent ==
    /\ Running
    /\ GroupAlive
    /\ nprod < MaxRecords
    /\ \E mask \in {FAN_OPEN_PERM, FAN_MODIFY} :
         /\ kq' = Append(kq, [kind |-> "fd", mask |-> mask, pid |-> nprod + 1,
                              name |-> <<>>])
         /\ perm' = [perm EXCEPT !.access[nprod + 1] =
                       IF IsPermMask(mask) THEN "blocked" ELSE "none"]
    /\ nprod' = nprod + 1
    /\ UNCHANGED <<w, bg, cl, faults, openFds, pipeData, recvEvents, recvPerm,
                   recvErrors, readLog, closeCount, panicked, atClose, fstab,
                   marks, ncalls, lastCall, eval>>

\* a response written with its two fields in the other order
ResponseBytesSwapped(fd, response) == LE32(response) \o LE32(fd)

\* binary.Write(buf, binary.LittleEndian, &response) of a
\* unix.FanotifyResponse{Fd int32, Response uint32}
ResponseBytes(fd, response) == LE32(fd) \o LE32(response)

\* the kernel's side of a write to the notification fd: the request the
\* response names, if it is still waiting
Waiting(bytes) ==
    {k \in 1..Len(readLog) :
        /\ FdOfRecord(k) = I32At(bytes, 0)
        /\ perm.access[readLog[k].pid] = "blocked"}

\* Allow / Deny: unix.Write(w.fd, buf.Bytes()); the result of the write is
\* not looked at
Respond(j, response) ==
    LET e == recvPerm[j]
        bytes == ResponseBytes(e.Fd, response)
        found == Waiting(bytes)
        taken == w.fdOpen /\ found # {}
        call == [fd |-> e.Fd, pid |-> e.Pid, response |-> response,
                 fdOpen |-> w.fdOpen, written |-> taken]
    IN  /\ Running
        /\ \A c \in 1..Len(perm.calls) : perm.calls[c].pid # e.Pid
        /\ perm' =
             [perm EXCEPT
                !.calls = Append(@, call),
                !.responses =
                    IF taken
                    THEN Append(@, [fd |-> I32At(bytes, 0), response |-> U32At(bytes, 4)])
                    ELSE @,
                !.access =
                    IF taken
                    THEN [p \in 1..MaxRecords |->
                            IF \E k \in found : readLog[k].pid = p
                            THEN IF U32At(bytes, 4) = FAN_ALLOW THEN "allowed"
                                 ELSE "denied"
                            ELSE @[p]]
                    ELSE @]
        /\ UNCHANGED <<w, bg, cl, kq, nprod, faults, openFds, pipeData, recvEvents,
                       recvPerm, recvErrors, readLog, closeCount, panicked,
                       atClose, fstab, marks, ncalls, lastCall, eval>>

Allow == \E j \in 1..Len(recvPerm) : Respond(j, FAN_ALLOW)

Deny == \E j \in 1..Len(recvPerm) : Respond(j, FAN_DENY)

\* the notification fd is closed and no call holds the group: the kernel
\* destroys it and lets the accesses that still wait proceed
KernelRelease ==
    /\ Running
    /\ ~w.fdOpen
    /\ ~GroupAlive
    /\ \E p \in 1..MaxRecords : perm.access[p] = "blocked"
    /\ perm' = [perm EXCEPT !.access =
                  [p \in 1..MaxRecords |->
                     IF @[p] = "blocked" THEN "released" ELSE @[p]]]
    /\ UNCHANGED <<w, bg, cl, kq, nprod, faults, openFds, pipeData, recvEvents,
                   recvPerm, recvErrors, readLog, closeCount, panicked, atClose,
                   fstab, marks, ncalls, lastCall, eval>>

\* the watcher of a kernel that reports no file ids
InitPerm == Init /\ w.flags \cap (FAN_REPORT_FID \cup FAN_REPORT_DIR_FID) = {}

NextPerm ==
    \/ KernelPermEvent
    \/ BgProgress
    \/ CloseStep
    \/ Allow
    \/ Deny
    \/ KernelRelease

SpecPerm == InitPerm /\ [][NextPerm]_vars

(***************************************************************************)
(* Properties.                                                             *)
(***************************************************************************)
\* a Close call, of a client or of the background task, has returned
CloseHasReturned == \E c \in Closers : cl[c] = "returned"

\* the resources Close releases whatever the watcher did before
AlwaysOwned == Resources \ {"mountPointFile"}

\* C1: Close is idempotent.  However many tasks call Close, the background
\* task's exit included, no resource is closed twice and no close panics;
\* when the body of Close has finished, done, the notification fd, both pipe
\* ends and the three streams have been closed exactly once, the mount-root
\* file exactly once if it was ever opened; and from then on no call changes
\* a field of the watcher or closes anything again.
C1_CloseIdempotent ==
    /\ [](/\ \A r \in Resources : closeCount[r] <= 1
          /\ panicked # "close of closed channel"
          /\ w.closeOnce = "finished" =>
               /\ \A r \in AlwaysOwned : closeCount[r] = 1
               /\ w.mountPointFile # "open"
               /\ closeCount["mountPointFile"] =
                    IF w.mountPointFile = "closed" THEN 1 ELSE 0)
    /\ [][w.closeOnce = "finished" => UNCHANGED <<w, closeCount, pipeData>>]_vars

\* C1 witness: a client's Close and the background task's Close have both
\* returned, after the mount-root file was opened and closed once
C1_TwoClosesReturned ==
    /\ \A c \in Closers : cl[c] = "returned"
    /\ closeCount["mountPointFile"] = 1
    /\ closeCount["Events"] = 1

\* C2: after a Close call has returned, Events, PermissionEvents and Errors
\* are closed, and no value is received on any of them in any later step.
C2_StreamsTerminated ==
    /\ [](CloseHasReturned =>
            w.EventsClosed /\ w.PermissionEventsClosed /\ w.ErrorsClosed)
    /\ [][CloseHasReturned =>
            UNCHANGED <<recvEvents, recvPerm, recvErrors>>]_vars

\* C2 witness: Close has returned while the background task is inside a
\* publisher with an event to send
C2_ClosedWhilePublishing ==
    /\ cl[1] = "returned"
    /\ bg.pc \in {"send_check", "send_select"}
    /\ bg.snd.ch = "Events"

\* C3: a publisher never attempts a send on a stream that is closed: no
\* publisher is at its select with its stream closed, and none has panicked
\* with a send on a closed channel.
C3_NoSendOnClosedStream ==
    /\ panicked # "send on closed channel"
    /\ bg.pc = "send_select" => ~StreamClosed(bg.snd.ch)

\* C3 witness: the background task has panicked sending an event on Events
\* after Close closed it
C3_PublisherPanicked ==
    /\ panicked = "send on closed channel"
    /\ bg.pc = "send_select"
    /\ bg.snd.ch = "Events"

\* a call of the client has returned
CallReturned == lastCall.op # "none" /\ lastCall.stage = "idle"

\* C4: a call of Add, Remove or Clear that began after a Close call had
\* returned returns ErrClosed and issues no fanotify_mark.
C4_CallsAfterCloseReturnClosed ==
    (CallReturned /\ lastCall.afterClose) =>
        (lastCall.ret = "ErrClosed" /\ ~lastCall.syscall)

\* C4 witness: a Remove that began after Close had returned has issued
\* fanotify_mark on the closed descriptor
C4_RemoveAfterCloseMarks ==
    /\ CallReturned
    /\ lastCall.op = "Remove"
    /\ lastCall.afterClose
    /\ lastCall.syscall
    /\ ~lastCall.fdOpen

\* a client has called Close
CloseCalled == \E c \in 1..NumClosers : cl[c] # "idle"

\* C5: once a client has called Close, the background task eventually ends
\* (or the process has ended in a panic).
C5_CloseStopsBackgroundTask == CloseCalled ~> (bg.pc = "exited" \/ ~Running)

\* C5 witness: Close has returned and the background task is blocked in a
\* read of the notification fd that it entered before the fd was closed
C5_BlockedInReadAfterClose ==
    /\ cl[1] = "returned"
    /\ bg.pc = "read_wait"
    /\ bg.rv
    /\ kq = <<>>

\* C6: from the moment Close has closed the done latch, at most one more
\* event is received on Events and PermissionEvents together.
C6_AtMostOneEventAfterClose ==
    atClose # -1 => EventsReceived <= atClose + 1

\* C6 witness: two events were received after close(w.done)
C6_TwoEventsAfterClose == atClose # -1 /\ EventsReceived = atClose + 2

\* the pids of the events received on a stream, in the order received
RecvPids(s) == [k \in 1..Len(s) |-> s[k].Pid]

Increasing(s) == \A j, k \in 1..Len(s) : j < k => s[j] < s[k]

\* the numbers of the records read, and of the events received
ReadPids == {readLog[k].pid : k \in 1..Len(readLog)}

DeliveredPids ==
    {recvEvents[k].Pid : k \in 1..Len(recvEvents)}
    \cup {recvPerm[k].Pid : k \in 1..Len(recvPerm)}

\* the watcher is open, no syscall has failed, nothing was reported on Errors,
\* and the background task has finished with every record it has read
Drained ==
    /\ Running
    /\ \A c \in Closers : cl[c] = "idle"
    /\ faults = 0
    /\ recvErrors = <<>>
    /\ bg.pc \in {"poll_enter", "poll_wait", "read_enter", "read_wait"}

\* C7: the events received on each stream are in the order the kernel
\* produced their records, none twice and none that was not read; and when
\* the open watcher has finished with the records it has read, without an
\* error, every one of them has been received as an event.
C7_KernelOrder ==
    /\ Increasing(RecvPids(recvEvents))
    /\ Increasing(RecvPids(recvPerm))
    /\ DeliveredPids \subseteq ReadPids
    /\ Drained => DeliveredPids = ReadPids

\* C7 witness: a read returned a record with a name followed by another
\* record; the first was received and the task waits for more, the second
\* having never been decoded
C7_RecordAfterNameDropped ==
    /\ Drained
    /\ Len(readLog) = 2
    /\ readLog[1].kind = "name"
    /\ DeliveredPids = {1}
    /\ bg.pc = "read_wait"

HasPermissionOp(e) == e.Op \cap PermissionOps # {}

\* the group hands out descriptors: the decoder's classic case
ClassicGroup == w.flags \cap (FAN_REPORT_FID \cup FAN_REPORT_DIR_FID) = {}

\* the mask of the record an event was decoded from
RecordMask(e) ==
    LET k == CHOOSE j \in 1..Len(readLog) : readLog[j].pid = e.Pid
    IN  readLog[k].mask

\* C8 as stated: every event received on PermissionEvents has a permission
\* Op, and no event received on Events has one, for every mask, in the
\* classic and in the FID case.
C8_RoutingByMask ==
    /\ \A k \in 1..Len(recvPerm) : HasPermissionOp(recvPerm[k])
    /\ \A k \in 1..Len(recvEvents) : ~HasPermissionOp(recvEvents[k])

\* C8 amended: every event received on PermissionEvents has a permission Op;
\* in the classic case no event received on Events has one, for every mask;
\* in the FID case every event is received on Events, and it has a permission
\* Op exactly when the mask of its record has a *_PERM bit.
C8_RoutingClassicOnly ==
    /\ \A k \in 1..Len(recvPerm) : HasPermissionOp(recvPerm[k])
    /\ ClassicGroup => \A k \in 1..Len(recvEvents) : ~HasPermissionOp(recvEvents[k])
    /\ ~ClassicGroup =>
         /\ recvPerm = <<>>
         /\ \A k \in 1..Len(recvEvents) :
              HasPermissionOp(recvEvents[k]) <=>
                  IsPermMask(ClearOnDir(RecordMask(recvEvents[k])))

\* C8 witness: in the classic case one event was received on each stream
C8_BothStreamsUsed ==
    /\ ClassicGroup
    /\ Len(recvPerm) = 1
    /\ Len(recvEvents) = 1

\* the events received on Events and PermissionEvents
Received == recvEvents \o recvPerm

\* C9: every event received carries a descriptor that is open in the
\* process, never FAN_NOFD.
C9_EventCarriesOpenFd ==
    \A k \in 1..Len(Received) :
        Received[k].Fd # FAN_NOFD /\ Received[k].Fd \in openFds

\* C9 witness: two events of the FID case were received, each with the
\* descriptor open_by_handle_at returned for it
C9_FidEventsReceived ==
    /\ ~ClassicGroup
    /\ Len(recvEvents) = 2
    /\ recvEvents[1].Fd # recvEvents[2].Fd

\* C10: an Add that returned nil was given a path on the device of the bound
\* mount, and the mount-root file was open when it returned; an Add whose
\* path is on another device than w.mountDeviceID does not return nil.
C10_AddChecksDevice ==
    (CallReturned /\ lastCall.op = "Add") =>
        /\ lastCall.ret = "nil" =>
             /\ StatOK(lastCall.path)
             /\ StatDev[lastCall.path] = w.mountDeviceID
             /\ lastCall.mountFile = "open"
        /\ (StatOK(lastCall.path) /\ StatDev[lastCall.path] # w.mountDeviceID) =>
             lastCall.ret # "nil"

\* C10 witness: a second Add, of a path on the device of the mount the first
\* Add bound, has returned nil
C10_SecondAddSucceeded ==
    /\ CallReturned
    /\ lastCall.op = "Add"
    /\ ncalls = 2
    /\ lastCall.ret = "nil"
    /\ w.mountPointFile = "open"

\* the watcher is bound to a mount: the first Add has opened the mount root
Bound == w.findMountPoint = "done" /\ w.mountPointFile # "nil"

\* the step in which an Add that has passed the closed test ends or goes on
\* to the mark
AddChecked == lastCall.stage = "findMountPoint" /\ lastCall'.stage # "findMountPoint"

\* C11: an Add of a path on another device than the bound mount's returns
\* ErrMountPoint, issues no fanotify_mark and leaves the binding and the
\* kernel's marks as they were.
C11_CrossMountRejected ==
    [][(/\ AddChecked
        /\ Bound
        /\ StatOK(lastCall.path)
        /\ StatDev[lastCall.path] # w.mountDeviceID)
       => /\ lastCall'.stage = "idle"
          /\ lastCall'.ret = "ErrMountPoint"
          /\ ~lastCall'.syscall
          /\ marks' = marks
          /\ w'.mountPointFile = w.mountPointFile
          /\ w'.mountDeviceID = w.mountDeviceID]_vars

\* a watcher bound to device 1 has rejected a path of device 2 while a path
\* of device 1 is marked
C11_OtherDeviceRejected ==
    /\ w.mountPointFile = "open"
    /\ w.mountDeviceID = 1
    /\ lastCall.op = "Add"
    /\ lastCall.path = "/b/y"
    /\ lastCall.ret = "ErrMountPoint"
    /\ marks["/a/x"] # {}

\* C12: the binding (mount-root file, device id) is written only by the first
\* Add, from unset to set; afterwards no Add, Remove or Clear changes it, and
\* only Close closes the mount-root file.
C12_BindingSetOnce ==
    [][/\ (w'.mountDeviceID # w.mountDeviceID
             => /\ w.findMountPoint = "new"
                /\ w.mountDeviceID = 0
                /\ lastCall.stage = "findMountPoint")
       /\ (w'.mountPointFile # w.mountPointFile
             => \/ /\ w.findMountPoint = "new"
                   /\ w.mountPointFile = "nil"
                   /\ w'.mountPointFile = "open"
                   /\ lastCall.stage = "findMountPoint"
                \/ /\ w.mountPointFile = "open"
                   /\ w'.mountPointFile = "closed"
                   /\ \E c \in Closers : cl[c] = "mountpoint")]_vars

\* three calls have been made, the last an Add of a path of another device,
\* and the watcher is still bound to the device of the first
C12_BoundAfterThreeCalls ==
    /\ ncalls = 3
    /\ lastCall.stage = "idle"
    /\ lastCall.op = "Add"
    /\ lastCall.path = "/b/y"
    /\ lastCall.prev.op \in {"Remove", "Clear"}
    /\ w.mountPointFile = "open"
    /\ w.mountDeviceID = 1

\* Remove(P) has returned nil right after Add(P) returned nil
AddThenRemove ==
    /\ lastCall.op = "Remove"
    /\ lastCall.stage = "idle"
    /\ lastCall.ret = "nil"
    /\ lastCall.prev.op = "Add"
    /\ lastCall.prev.path = lastCall.path
    /\ lastCall.prev.ret = "nil"

\* C13 as stated: whatever the marks before it, add(P) followed by remove(P)
\* leaves the kernel's marks as they were before the add.
C13_AddRemoveRoundTrip == AddThenRemove => marks = lastCall.prev.before

\* C13, amended: add(P) followed by remove(P) leaves the kernel's marks as they
\* were before the add when P carried no mark before the add.
C13_RoundTripFromUnmarked ==
    (AddThenRemove /\ lastCall.prev.before[lastCall.path] = {})
        => marks = lastCall.prev.before

\* the add marked a path that was not marked and the remove has cleared it
\* again
C13_MarkedThenCleared ==
    /\ AddThenRemove
    /\ lastCall.prev.before[lastCall.path] = {}
    /\ lastCall.before[lastCall.path] # {}
    /\ marks[lastCall.path] = {}

\* the offsets at which the records of the last read start, and its end
RECURSIVE RecordStarts(_, _, _)
RecordStarts(b, k, total) ==
    IF k >= total \/ MetaEventLen(b, k) < sizeOfFanotifyEventMetadata THEN {total}
    ELSE {k} \cup RecordStarts(b, k + MetaEventLen(b, k), total)

\* the inner loop of the decoder is at its test
AtLoopTest == bg.pc = "decode" /\ bg.nread > 0

\* C14: whenever the decoder is at the test of its loop, the offset and the
\* remaining count add up to the length the read returned, and the offset is
\* the start of a record of the buffer or its end.
C14_DecoderAdvance ==
    AtLoopTest => /\ bg.i + bg.n = bg.nread
                  /\ bg.i \in RecordStarts(bg.buf, 0, bg.nread)

\* a record with a name has been handled and the offset is past the end of
\* that record
C14_OffsetPastNamedRecord ==
    /\ AtLoopTest
    /\ Len(readLog) > 0
    /\ readLog[Len(readLog)].kind = "name"
    /\ bg.fileName = ChildName
    /\ bg.i + bg.n = bg.nread + Len(ChildName)

\* the mapping of the mask bits to operations, bit by bit
OpTable(mask) ==
    {o \in {"Create", "Remove", "Write", "Rename", "Chmod", "Read", "Close", "Open",
            "Execute", "PermissionToOpen", "PermissionToExecute", "PermissionToRead"} :
       mask \cap (CASE o = "Create" -> FAN_CREATE \cup FAN_MOVED_TO
                    [] o = "Remove" -> FAN_DELETE \cup FAN_DELETE_SELF
                    [] o = "Write" -> FAN_MODIFY \cup FAN_CLOSE_WRITE
                    [] o = "Rename" -> FAN_MOVE_SELF \cup FAN_MOVED_FROM
                    [] o = "Chmod" -> FAN_ATTRIB
                    [] o = "Read" -> FAN_ACCESS
                    [] o = "Close" -> FAN_CLOSE_NOWRITE
                    [] o = "Open" -> FAN_OPEN
                    [] o = "Execute" -> FAN_OPEN_EXEC
                    [] o = "PermissionToOpen" -> FAN_OPEN_PERM
                    [] o = "PermissionToExecute" -> FAN_OPEN_EXEC_PERM
                    [] OTHER -> FAN_ACCESS_PERM) # {}}

\* C15: for every raw mask the Op of the event is the one the table gives for
\* the mask without FAN_ONDIR, hence the same with and without that bit and a
\* function of the mask alone.
C15_MaskToOpTable ==
    eval.fn = "toOp" => eval.op = OpTable(eval.mask \ FAN_ONDIR)

\* a mask with FAN_ONDIR, two bits of one operation and a permission bit has
\* been mapped
C15_OnDirMaskMapped ==
    /\ eval.fn = "toOp"
    /\ eval.mask = FAN_ONDIR \cup FAN_MOVED_TO \cup FAN_CREATE \cup FAN_ACCESS_PERM
    /\ eval.op = {"Create", "PermissionToRead"}

\* the init flags of the kernel table
KernelTableFlags(maj, min) ==
    IF VersionAtLeast(maj, min, 5, 9)
    THEN FAN_CLASS_NOTIF \cup FAN_CLOEXEC \cup FAN_REPORT_DIR_FID \cup FAN_REPORT_NAME
    ELSE IF VersionAtLeast(maj, min, 5, 1)
    THEN FAN_CLASS_NOTIF \cup FAN_CLOEXEC \cup FAN_REPORT_FID
    ELSE FAN_CLASS_NOTIF \cup FAN_CLOEXEC

\* C16: for every kernel version the constructor passes to fanotify_init the
\* flags of the kernel table and the event flags read-only, large-file,
\* close-on-exec; the watcher after construction carries the flags of its
\* kernel.
C16_InitFlagNegotiation ==
    /\ w.flags = KernelTableFlags(w.kernelMajorVersion, w.kernelMinorVersion)
    /\ (eval.fn = "NewFanotifyWatcher" /\ eval.out.initCalled)
         => /\ eval.out.flags = KernelTableFlags(eval.maj, eval.min)
            /\ eval.out.eventFlags = {"O_RDONLY", "O_LARGEFILE", "O_CLOEXEC"}

\* a watcher has been constructed on a kernel 6.0
C16_ConstructedOnSixZero ==
    /\ eval.fn = "NewFanotifyWatcher"
    /\ eval.maj = 6
    /\ eval.min = 0
    /\ eval.out.ret = "nil"
    /\ isSet(eval.out.flags, FAN_REPORT_DFID_NAME)

\* the bits a mount-scope mark must not carry
MountIllegalBits ==
    FAN_CREATE \cup FAN_ATTRIB \cup FAN_MOVE \cup FAN_DELETE_SELF \cup FAN_DELETE

\* C17: a mark call with FAN_MARK_MOUNT whose mask has any of CREATE, ATTRIB,
\* MOVED_FROM, MOVED_TO, DELETE_SELF or DELETE fails with
\* errInvalidFlagCombination (or aborts on the kernel-support test) before
\* fanotify_mark is called and leaves the marks as they were; the mask of
\* AddMountPoint has none of those bits.
C17_MountMaskRejected ==
    /\ AddMountPointMask \cap MountIllegalBits = {}
    /\ (/\ eval.fn = "fanotifyMark"
        /\ isSet(eval.flags, FAN_MARK_MOUNT)
        /\ eval.mask \cap MountIllegalBits # {})
         => /\ eval.panic \/ eval.out.ret = "errInvalidFlagCombination"
            /\ ~eval.out.syscall
            /\ eval.out.marks = marks

\* a mount-scope mark with one move bit has reached the kernel
C17_MoveBitReachedKernel ==
    /\ eval.fn = "fanotifyMark"
    /\ eval.flags = FAN_MARK_ADD \cup FAN_MARK_MOUNT
    /\ eval.mask = FAN_MOVED_FROM
    /\ eval.out.syscall
    /\ eval.out.ret = "EINVAL"

\* every flag of the table that is set has its minimum version satisfied
SupportTableSays(table, flags, maj, min) ==
    \A e \in table : isSet(flags, e[1]) => VersionAtLeast(maj, min, e[2], e[3])

\* C18: the kernel-support test passes if and only if every set flag of its
\* table has its minimum version satisfied, whatever the order the flags are
\* examined in, and fanotify_mark is not called when it does not.
C18_SupportCoversEveryFlag ==
    /\ eval.fn = "fanotifyInitFlagsKernelSupport"
         => eval.out = SupportTableSays(flagPerKernelVersion, eval.flags,
                                        eval.maj, eval.min)
    /\ eval.fn = "fanotifyMarkFlagsKernelSupport"
         => eval.out = SupportTableSays(fanotifyMarkFlags, eval.flags,
                                        eval.maj, eval.min)
    /\ (eval.fn = "fanotifyMark" /\ eval.out.syscall)
         => SupportTableSays(fanotifyMarkFlags, eval.mask,
                             w.kernelMajorVersion, w.kernelMinorVersion)

\* the test has passed a mask with FAN_CREATE on a kernel 5.0
C18_CreatePassedOnFiveZero ==
    /\ eval.fn = "fanotifyMarkFlagsKernelSupport"
    /\ eval.flags = FAN_OPEN_EXEC \cup FAN_CREATE
    /\ eval.maj = 5
    /\ eval.min = 0
    /\ eval.out

\* C20: when the capability is absent or a step of the construction fails,
\* the constructor returns an error and no watcher, no notification fd it
\* created stays open and no background task has been started.
C20_ConstructionErrorsReturned ==
    eval.fn = "NewFanotifyWatcher"
      => /\ (~eval.cap \/ eval.fail # "none") => eval.out.ret # "nil"
         /\ eval.out.ret # "nil"
              => /\ ~eval.out.watcher
                 /\ ~eval.out.fdOpen
                 /\ ~eval.out.task

\* the creation of the stopper pipe has failed after fanotify_init succeeded
C20_PipeFailedAfterInit ==
    /\ eval.fn = "NewFanotifyWatcher"
    /\ eval.cap
    /\ eval.fail = "pipe"
    /\ eval.out.ret = "cannot create stopper pipe"
    /\ eval.out.initCalled
    /\ eval.out.fdOpen

\* the consumer has called Allow or Deny for the event
Decided(e) == \E c \in 1..Len(perm.calls) : perm.calls[c].pid = e.Pid

\* what the call asked for has happened to the access
Answered(c) ==
    /\ c.written
    /\ perm.access[c.pid] = (IF c.response = FAN_ALLOW THEN "allowed" ELSE "denied")
    /\ \E r \in 1..Len(perm.responses) :
         perm.responses[r] = [fd |-> c.fd, response |-> c.response]

\* C19 as stated: the access behind a delivered permission event stays
\* blocked until the consumer calls Allow or Deny for it; each such call
\* writes one response record {event.Fd, FAN_ALLOW} or {event.Fd, FAN_DENY},
\* after which the access proceeds or is refused.
C19_PermissionGating ==
    /\ \A j \in 1..Len(recvPerm) :
         ~Decided(recvPerm[j]) => perm.access[recvPerm[j].Pid] = "blocked"
    /\ \A c \in 1..Len(perm.calls) : Answered(perm.calls[c])
    /\ Len(perm.responses) = Len(perm.calls)

\* C19, amended: the same while the notification fd is open; once Close has
\* closed it the kernel lets the accesses still waiting proceed, and an Allow
\* or Deny made after that writes nothing.
C19_GatingWhileOpen ==
    /\ \A j \in 1..Len(recvPerm) :
         ~Decided(recvPerm[j])
           => \/ perm.access[recvPerm[j].Pid] = "blocked"
              \/ perm.access[recvPerm[j].Pid] = "released" /\ ~w.fdOpen
    /\ \A c \in 1..Len(perm.calls) :
         IF perm.calls[c].fdOpen
         THEN Answered(perm.calls[c])
         ELSE ~perm.calls[c].written
    /\ Len(perm.responses) = Cardinality({c \in 1..Len(perm.calls) : perm.calls[c].written})

\* one request has been allowed and another denied, each by its response
C19_AllowedAndDenied ==
    /\ Len(perm.responses) = 2
    /\ \E p, q \in 1..MaxRecords :
         perm.access[p] = "allowed" /\ perm.access[q] = "denied"

(***************************************************************************)
(* C21: the notification descriptor and the self-pipe exist together or    *)
(* not at all: whenever no construction and no Close is in progress,       *)
(* either the descriptor and both pipe ends are open or all three are      *)
(* closed, also after a construction that failed.                          *)
(***************************************************************************)
\* a task is inside the body of closeFanotify
CloseInProgress == \E c \in Closers : cl[c] \notin {"idle", "once", "returned"}

C21_FdAndPipeTogether ==
    /\ ~CloseInProgress => (w.fdOpen = w.rOpen /\ w.rOpen = w.wOpen)
    /\ eval.fn = "NewFanotifyWatcher" => eval.out.fdOpen = eval.out.pipeOpen

\* os.Pipe failed on kernel 5.9: the group descriptor is open, there is no
\* pipe and no watcher
C21_FdWithoutPipe ==
    /\ eval.fn = "NewFanotifyWatcher"
    /\ eval.maj = 5 /\ eval.min = 9
    /\ eval.out.fdOpen /\ ~eval.out.pipeOpen /\ ~eval.out.watcher

(***************************************************************************)
(* C22: only the background task closes the notification descriptor: no    *)
(* task that calls Close has run unix.Close(w.fd).                         *)
(***************************************************************************)
\* task c has run unix.Close(w.fd) and not yet set isClosed
ClosedFdJust(c) == cl[c] \in {"senderr", "isclosed"}

C22_BackgroundTaskOwnsFd == \A c \in Closers \ {0} : ~ClosedFdJust(c)

\* a task that called Close has closed the descriptor while the background
\* task waits in a poll it entered on the open descriptor
C22_ClientClosedFdUnderPoll ==
    /\ ClosedFdJust(1)
    /\ closeCount["fd"] = 1
    /\ bg.pc = "poll_wait" /\ bg.pv0

(***************************************************************************)
(* C23: once Close has closed the notification descriptor and the pipe     *)
(* read end, no poll and no read is issued on those descriptor numbers:    *)
(* a poll in progress was entered with both open, a read in progress was   *)
(* entered with the notification descriptor open.                          *)
(***************************************************************************)
C23_NoUseAfterClose ==
    /\ bg.pc = "poll_wait" => bg.pv0 /\ bg.pv1
    /\ bg.pc = "read_wait" => bg.rv

\* the background task has entered a read on the descriptor number that
\* Close had closed
C23_ReadOnClosedFd ==
    /\ bg.pc = "read_wait" /\ ~bg.rv
    /\ closeCount["fd"] = 1 /\ ~w.fdOpen

(***************************************************************************)
(* C24: the error policy of the poll loop.  A poll, read or decode error   *)
(* that is published leaves the loop running; one that cannot be published *)
(* ends the loop: start returns and its deferred closeFanotify runs.       *)
(***************************************************************************)
\* the background task is inside sendError
InSendError == bg.pc \in {"send_check", "send_select"} /\ bg.snd.ch = "Errors"

\* this step is the return of sendError
SendErrorReturns == InSendError /\ bg'.pc \notin {"send_check", "send_select"}

C24_PollLoopErrorPolicy ==
    [][SendErrorReturns =>
         IF Len(recvErrors') > Len(recvErrors)
         THEN bg'.pc \in {"poll_enter", "decode"}
         ELSE bg'.pc = "defer"]_vars

\* a read has failed with EBADF after Close and sendError is at its test of
\* isClosed, which is set: it returns false to readFanotifyEvents
C24_UnpublishableReadError ==
    /\ bg.pc = "send_check" /\ bg.cont = "read"
    /\ bg.snd = [ch |-> "Errors", val |-> "read"]
    /\ w.isClosed
    /\ recvErrors = <<>>

(***************************************************************************)
(* C25: per-record error isolation in the decoder.  When the background    *)
(* task has finished with what it read and no Close was called, every      *)
(* record read has either its one event delivered or, its resolution       *)
(* having failed, no event and one error published; every event delivered  *)
(* belongs to a record read.  So a record after a failed one is decoded    *)
(* and delivered all the same.                                             *)
(***************************************************************************)
Delivered == recvEvents \o recvPerm

\* the number of events delivered for the record the kernel numbered pid
DeliveredFor(pid) ==
    Cardinality({k \in 1..Len(Delivered) : Delivered[k].Pid = pid})

\* the errors of open_by_handle_at and readlink that were published
DecodeErrors ==
    Cardinality({k \in 1..Len(recvErrors) :
                    recvErrors[k] \in {"open_by_handle_at", "readlink"}})

\* the records of readLog that have no event
Undelivered ==
    Cardinality({k \in 1..Len(readLog) : DeliveredFor(readLog[k].pid) = 0})

\* the inner loop has ended on what the last read returned; no Close
BufferDone ==
    /\ Running
    /\ bg.pc = "read_enter" /\ bg.nread > 0
    /\ \A c \in Closers : cl[c] = "idle"

C25_RecordErrorIsolation ==
    BufferDone =>
        /\ \A k \in 1..Len(readLog) : DeliveredFor(readLog[k].pid) <= 1
        /\ \A k \in 1..Len(Delivered) :
               \E j \in 1..Len(readLog) : readLog[j].pid = Delivered[k].Pid
        /\ Undelivered = DecodeErrors

\* one read returned a DFID_NAME record and a DFID record; open_by_handle_at
\* failed for the first and its error was published; the inner loop has
\* ended and the second record has neither an event nor an error
C25_RecordAfterFailedOneLost ==
    /\ BufferDone
    /\ Len(readLog) = 2
    /\ readLog[1].kind = "name" /\ readLog[2].kind = "dfid"
    /\ bg.nread = Len(EncodeQueue(readLog, NextFd))
    /\ recvErrors = <<"open_by_handle_at">>
    /\ Delivered = <<>>

(***************************************************************************)
(* C26: failure reporting of the mount resolver.  When the path can be     *)
(* stat-ed and no line of the table matches its device, the error wraps    *)
(* the first stat error met in the scan, or is the plain not-found error   *)
(* when there was none; comment and swap lines contribute no stat error;   *)
(* an error of reading the table (EIO here) is returned as that error.     *)
(***************************************************************************)
\* the lines of the table whose mount point the scan stats
StatLines(tab) ==
    {k \in 1..Len(tab) : tab[k].kind = "fs" /\ tab[k].vfstype # "swap"}

\* a line of the table is on the device of the path
Matches(tab, path) ==
    \E k \in StatLines(tab) :
        StatOK(tab[k].file) /\ StatDev[tab[k].file] = StatDev[path]

\* the errno of the first stat that fails in a scan of the whole table
FirstStatError(tab) ==
    LET bad == {k \in StatLines(tab) : ~StatOK(tab[k].file)}
    IN  IF bad = {} THEN "nil"
        ELSE StatErr(tab[CHOOSE k \in bad : \A k2 \in bad : k <= k2].file)

C26_ResolverFailureReporting ==
    (eval.fn = "getMountPointForPath" /\ StatOK(eval.path)) =>
        /\ (eval.fail = "none" /\ ~Matches(eval.tab, eval.path)) =>
              eval.out.err =
                IF FirstStatError(eval.tab) = "nil"
                THEN "cannot stat paths in fstab"
                ELSE "cannot stat paths in fstab: " \o FirstStatError(eval.tab)
        /\ eval.fail = "scan" => eval.out.err = "error reading fstab: EIO"

\* no line matches the device of /a/x; the stat of /secret failed first
\* (EACCES), that of /missing after it (ENOENT), and the error returned wraps
\* ENOENT
C26_LastStatErrorReturned ==
    /\ eval.fn = "getMountPointForPath"
    /\ eval.path = "/a/x" /\ eval.fail = "none"
    /\ FirstStatError(eval.tab) = "EACCES"
    /\ ~Matches(eval.tab, eval.path)
    /\ eval.out.err = "cannot stat paths in fstab: ENOENT"

(***************************************************************************)
(* C27: queue overflow is passed through.  When the background task has    *)
(* finished with what it read and no Close was called, every overflow      *)
(* record read has a value delivered to the consumer that carries the      *)
(* record's number and no descriptor of a resolved file handle.            *)
(***************************************************************************)
C27_OverflowPassedThrough ==
    BufferDone =>
        \A k \in 1..Len(readLog) :
            readLog[k].kind = "overflow" =>
                \E j \in 1..Len(Delivered) :
                    /\ Delivered[j].Pid = readLog[k].pid
                    /\ Delivered[j].Fd = FAN_NOFD

\* one read returned an overflow record alone; the inner loop has ended
\* past it and nothing was delivered or published
C27_OverflowDropped ==
    /\ BufferDone
    /\ Len(readLog) = 1 /\ readLog[1].kind = "overflow"
    /\ bg.i = sizeOfFanotifyEventMetadata /\ bg.n = 0
    /\ Delivered = <<>>
    /\ recvErrors = <<>>

(***************************************************************************)
(* C28: Close always returns.  With no consumer on the streams, every      *)
(* call of Close by a client task that has started returns (or the program *)
(* has panicked), whether or not unix.Close(w.fd) fails and whether or not *)
(* the background task runs its own Close at the same time.                *)
(***************************************************************************)
C28_CloseAlwaysReturns ==
    \A c \in Closers \ {0} :
        (cl[c] = "once") ~> (cl[c] = "returned" \/ ~Running)

\* unix.Close(w.fd) has failed in the Close of a client task, which is at
\* w.Errors <- err with nothing received, while the Close of the background
\* task waits at the Once
C28_CloseBlockedOnErrors ==
    /\ cl[1] = "senderr"
    /\ cl[0] = "once"
    /\ recvErrors = <<>>
    /\ faults = 1

(***************************************************************************)
(* C29: no event descriptor is leaked by the decoder.  The watcher closes  *)
(* no descriptor of a record, so when the background task is not working   *)
(* on a buffer (it is at its poll or at its read, or start has returned),  *)
(* every descriptor obtained for a record has been delivered inside an     *)
(* event.                                                                  *)
(***************************************************************************)
\* the descriptors delivered to a consumer
DeliveredFds == {Delivered[k].Fd : k \in 1..Len(Delivered)}

\* the inner loop of readFanotifyEvents is not running
OutsideDecoder ==
    bg.pc \in {"poll_enter", "poll_wait", "read_enter", "read_wait", "defer", "exited"}

C29_NoEventFdLeaked == (Running /\ OutsideDecoder) => openFds \subseteq DeliveredFds

\* readlink failed for a classic record: its error was published, the
\* decoder went on to the end of the buffer and the task waits in the next
\* read; the descriptor of the record is open and no event carries it
C29_FdLeakedAfterReadlinkError ==
    /\ Running
    /\ bg.pc = "read_wait"
    /\ \A c \in Closers : cl[c] = "idle"
    /\ Len(readLog) = 1 /\ readLog[1].kind = "fd"
    /\ recvErrors = <<"readlink">>
    /\ Delivered = <<>>
    /\ openFds = {10}

(***************************************************************************)
(* C30: the decoder never indexes the read buffer at or beyond its         *)
(* capacity: for every read, also one that fills the buffer exactly, the   *)
(* inner loop ends without a panic, at the offset of the end of the bytes  *)
(* read, which is an index of the array.                                   *)
(***************************************************************************)
C30_BufferAccessInBounds ==
    (eval.fn = "readFanotifyEvents" /\ eval.done) =>
        /\ ~eval.panic
        /\ eval.i = eval.nread
        /\ eval.i < BufCap

\* the read returned 4096 classic records, every byte of the buffer; after
\* the last record the offset is the length of the array and the cast of
\* the metadata pointer panics
C30_FullBufferPanics ==
    /\ eval.fn = "readFanotifyEvents"
    /\ eval.records = BufRecords
    /\ eval.nread = BufCap
    /\ eval.i = BufCap /\ eval.n = 0
    /\ eval.panic

(***************************************************************************)
(* C31: a failed first Add does not poison the watcher.  When the mount    *)
(* resolution of an Add fails, the Add ends with an error of the           *)
(* resolution (not with ErrMountPoint, the error of a path outside the     *)
(* bound mount) and the watcher stays unbound; and an Add of a path that   *)
(* resolves, made while the watcher is unbound and with no failure in the  *)
(* call, binds the mount of the path and goes on to mark it.               *)
(***************************************************************************)
\* the path can be stat-ed and a line of the mount table is on its device
Resolvable(path, tab) == StatOK(path) /\ Matches(tab, path)

\* this step ran the resolution and it failed
ResolutionFailed == AddChecked /\ w.findMountPoint = "new" /\ w'.mountPointFile = "nil"

\* this step is the check of an Add of a resolvable path on an unbound
\* watcher, with no failure made in it
ResolvableAddChecked ==
    /\ AddChecked
    /\ w.mountPointFile = "nil"
    /\ Resolvable(lastCall.path, fstab)
    /\ faults' = faults

C31_FailedAddNotPoisoning ==
    [][/\ ResolutionFailed =>
            /\ lastCall'.stage = "idle"
            /\ lastCall'.ret \notin {"nil", "ErrMountPoint"}
            /\ w'.mountDeviceID = 0
       /\ ResolvableAddChecked =>
            /\ w'.mountPointFile = "open"
            /\ w'.mountDeviceID = StatDev[lastCall.path]
            /\ lastCall'.stage = "mark"]_vars

\* the table lists /a and not /b: the first Add, of /b/y, found no mount and
\* returned ErrMountPoint; the second, of /a/x, which resolves, returned
\* ErrMountPoint too and the watcher is unbound
C31_SecondAddRejected ==
    /\ ncalls = 2
    /\ lastCall.stage = "idle"
    /\ lastCall.op = "Add" /\ lastCall.path = "/a/x"
    /\ Resolvable("/a/x", fstab) /\ ~Resolvable("/b/y", fstab)
    /\ lastCall.prev.op = "Add" /\ lastCall.prev.path = "/b/y"
    /\ lastCall.prev.ret = "ErrMountPoint"
    /\ lastCall.ret = "ErrMountPoint"
    /\ w.findMountPoint = "done" /\ w.mountPointFile = "nil"
    /\ faults = 0
    /\ \A c \in Closers : cl[c] = "idle"

====
